---- MODULE Spec2Model ----
(***************************************************************************)
(* Model of the ranger-transmissions indexing pipeline:                    *)
(*   transmissions/indexer/_indexer.py  (Indexer, filename parser, scan)   *)
(*   transmissions/ext/parallel.py      (runInParallel)                    *)
(*   transmissions/store/_db.py, store/sqlite/_queries.py (catalog)        *)
(*                                                                         *)
(* One behaviour is a sequence of Indexer.indexIntoStore runs over a fixed *)
(* directory tree.  The scanner thread, the task generator tasks(), the    *)
(* Cooperator workers of runInParallel and the hashing pool threads are    *)
(* interleaved at the granularity of the statements that touch the shared  *)
(* deque and the scanComplete flag.                                        *)
(***************************************************************************)
EXTENDS Integers, Sequences, FiniteSets, Bags, TLC

\* Number of Cooperator workers started by runInParallel (maxTasks).
MaxTasks == 2

\* Number of indexIntoStore runs in one behaviour.
MaxRuns == 2

\* The highest schema version of the model.
MaxVersion == 3

\* rateLimited: the highest maxRate, in tasks per second.
MaxRate == 2

\* rateLimited: the longest timeWindow, in clock ticks of half a second.
MaxWindow == 3

\* The clock of the rate limiter stops after this many ticks.
MaxTime == 5

\* The source of the rate limiter holds this many tasks.
MaxSource == 4

\* Stall timers are counted up to this number.
MaxStalls == 2

\* The search-index factory is called at most this many times.
MaxBuilds == 2

\* DataStore.schemaVersion
SchemaVersion == 2

NULL == "NULL"
NoTask == [kind |-> "none"]

----------------------------------------------------------------------------
(* File names.  A name is described by the parts the parser looks at:      *)
(*   ext      the suffix of the path                                       *)
(*   year     the text before the first "-" ("2017", "2023", "2024", ...)  *)
(*   form     the grammar the whole name follows, "none" when it follows   *)
(*            no grammar                                                   *)
(*   dateOK   whether the six date/time fields form a valid date           *)
(*   time     the date and time written in the name                        *)
(*   sysType, sysName, stnType, stn, chan: the text of the named groups    *)

Name(ext, year, form, dateOK, time, sysType, sysName, stnType, stn, chan) ==
    [ext |-> ext, year |-> year, form |-> form, dateOK |-> dateOK,
     time |-> time, sysType |-> sysType, sysName |-> sysName,
     stnType |-> stnType, stn |-> stn, chan |-> chan]

\* "2023-08-24 18-28-05 SYSTEM A Group Call- 'S1' called 'C1'.wav"
NameA == Name(".wav", "2023", "g2023", TRUE, "t1", "-", "A", "-", "S1", "C1")
\* the same call with another station: same composite key as NameA
NameA2 == Name(".wav", "2023", "g2023", TRUE, "t1", "-", "A", "-", "S2", "C1")
\* a later call on the same channel
NameB == Name(".wav", "2023", "g2023", TRUE, "t2", "-", "A", "-", "S1", "C1")
\* "2024-08-28 10-40-47 A-1 Group Call- 'S1' called 'C1'.wav"
NameC == Name(".wav", "2024", "g2024a", TRUE, "t1", "-", "-", "-", "S1", "C1")
\* "2024-08-29 04-54-33 BRC 911 ALT All Call- 'S1' called 'All'.wav"
NameD == Name(".wav", "2024", "g2024b", TRUE, "t2", "-", "-", "-", "S1", "BRC 911 ALT")
\* "2017-08-28 21-40-52 SYSTEM A Radio _S1_ calls group _C1_ (00-04).wav"
NameOld == Name(".wav", "2017", "g2017", TRUE, "t1", "SYSTEM", "A", "Radio", "S1", "C1")
\* "notes.txt"
NameTxt == Name(".txt", "2023", "none", TRUE, "t1", "-", "-", "-", "-", "-")
\* "2023-08-24 recording.wav": 2023 prefix, not the 2023 grammar
NameMal == Name(".wav", "2023", "none", TRUE, "t1", "-", "-", "-", "-", "-")
\* "2023-13-45 18-28-05 SYSTEM A Group Call- 'S1' called 'C1'.wav": no such date
NameBadDate == Name(".wav", "2023", "g2023", FALSE, "t1", "-", "A", "-", "S1", "C1")
\* "README.wav": no year prefix
NameOther == Name(".wav", "other", "none", TRUE, "t1", "-", "-", "-", "-", "-")

File(dir, name) == [dir |-> dir, name |-> name]

\* The directory trees of the model, each in os.walk order (directory 1 is
\* walked before directory 2).
Trees ==
    { <<File(1, NameA), File(1, NameA2)>>,
      <<File(1, NameA), File(2, NameA)>>,
      <<File(1, NameBadDate), File(1, NameA), File(2, NameB)>>,
      <<File(1, NameTxt), File(1, NameMal), File(1, NameOther), File(2, NameD)>>,
      <<File(1, NameOld), File(1, NameA)>> }

\* A tree with two recordings of different keys.
PairTrees == { <<File(1, NameA), File(1, NameB)>> }

\* A tree with one recording.
OpenTrees == { <<File(1, NameA)>> }

\* A tree with more recordings than runInParallel has workers.
WideTrees == { <<File(1, NameA), File(1, NameB), File(1, NameC)>> }

TheEvent == [id |-> "E", name |-> "Event E"]

\* An EVENT row that has the configured id under another name.
RenamedEvent == [id |-> "E", name |-> "Another name"]

\* The EVENT table of a new database, and the tables a database of an
\* earlier configuration may hold.
NoEvents == { {} }
EventTables == { {}, {TheEvent}, {RenamedEvent} }

----------------------------------------------------------------------------
(* Filename parser: Indexer._transmissionFromFile                          *)

\* The named groups each compiled pattern has.
PatternGroups(pattern) ==
    CASE pattern = "2017" -> {"systemType", "systemName", "stationType",
                              "stationName1", "channel1", "channel2"}
      [] pattern = "2023" -> {"systemName", "stationName1", "channel1"}
      [] pattern = "2024" -> {"stationName1", "channel1", "channel2",
                              "stationName2"}

\* pattern.match(path.name): TRUE when the name follows the pattern.
PatternMatches(pattern, name) ==
    CASE pattern = "2017" -> name.form = "g2017"
      [] pattern = "2023" -> name.form = "g2023"
      [] pattern = "2024" -> name.form \in {"g2024a", "g2024b"}

\* match.group(g) for a group of the pattern: the captured text, or NULL
\* when the group took no part in the match.
GroupValue(name, g) ==
    CASE g = "systemType"   -> name.sysType
      [] g = "systemName"   -> name.sysName
      [] g = "stationType"  -> name.stnType
      [] g = "stationName1" -> IF name.form = "g2024b" THEN NULL ELSE name.stn
      [] g = "stationName2" -> IF name.form = "g2024b" THEN name.stn ELSE NULL
      [] g = "channel1"     -> IF name.form = "g2024b" THEN NULL ELSE name.chan
      [] g = "channel2"     -> IF name.form = "g2024b" THEN name.chan ELSE NULL

\* getValue(n1, n2): the first captured value; the pattern has both groups
\* or only the first one.
GetValue2(pattern, name, g1, g2) ==
    IF GroupValue(name, g1) # NULL \/ g2 \notin PatternGroups(pattern)
    THEN GroupValue(name, g1)
    ELSE GroupValue(name, g2)

\* The systemType table of the parser.
CanonicalSystemType(systemType) ==
    CASE systemType = "SYSTEM"    -> "Conventional"
      [] systemType = "Trunk Sys" -> "Trunk"
      [] OTHER                    -> systemType

SystemOf(pattern, name) ==
    LET systemName == IF "systemName" \in PatternGroups(pattern)
                      THEN name.sysName ELSE "?"
    IN  IF "systemType" \notin PatternGroups(pattern)
        THEN "System " \o systemName
        ELSE LET systemType == CanonicalSystemType(name.sysType)
             IN  IF systemType = systemName THEN systemName
                 ELSE systemType \o " " \o systemName

StationOf(pattern, name) ==
    LET stationName == GetValue2(pattern, name, "stationName1", "stationName2")
    IN  IF "stationType" \notin PatternGroups(pattern)
        THEN stationName
        ELSE name.stnType \o " " \o stationName

\* DateTime(..., tzinfo=TZInfo.PDT.value): a zone-aware instant.
StartTimeOf(name) == [instant |-> name.time, zone |-> "PDT"]

\* The record built from a match (lines 260-323 of the parser).
RecordFromMatch(pattern, file, eventID) ==
    [eventID |-> eventID,
     station |-> StationOf(pattern, file.name),
     system |-> SystemOf(pattern, file.name),
     channel |-> GetValue2(pattern, file.name, "channel1", "channel2"),
     startTime |-> StartTimeOf(file.name),
     duration |-> NULL,
     path |-> file,
     sha256 |-> NULL,
     transcription |-> NULL]

\* Which pattern the year prefix selects; "none" raises InvalidFileError.
DispatchPattern(name) ==
    CASE name.year = "2023" -> "2023"
      [] name.year = "2024" -> "2024"
      [] OTHER              -> "none"

\* _transmissionFromFile(path).  kind is "none" (not a .wav: returns None),
\* "invalid" (InvalidFileError), "failure" (another exception: the date
\* fields form no date) or "tx" (a record).
TransmissionFromFile(file, eventID) ==
    LET pattern == DispatchPattern(file.name)
    IN  IF file.name.ext # ".wav" THEN [kind |-> "none"]
        ELSE IF pattern = "none" THEN [kind |-> "invalid"]
        ELSE IF ~PatternMatches(pattern, file.name) THEN [kind |-> "invalid"]
        ELSE IF ~file.name.dateOK THEN [kind |-> "failure"]
        ELSE [kind |-> "tx", tx |-> RecordFromMatch(pattern, file, eventID)]

\* The records and values a client of the store calls its methods with.
ApiRecords ==
    { RecordFromMatch("2023", File(1, NameA), TheEvent.id),
      RecordFromMatch("2023", File(1, NameA2), TheEvent.id),
      RecordFromMatch("2023", File(1, NameB), TheEvent.id),
      [RecordFromMatch("2023", File(2, NameB), TheEvent.id)
          EXCEPT !.duration = "0:00:09", !.sha256 = "sha256-of-record",
                 !.transcription = "text of record"] }

ApiValues(column) ==
    IF column = "DURATION" THEN {"4.0", "9.0"} ELSE {"value-1", "value-2"}

----------------------------------------------------------------------------
(* Catalog store: DatabaseStore over the TRANSMISSION table.  The table is *)
(* a sequence of rows in insertion order.                                  *)

\* DatabaseStore.asDateTimeValue: seconds since the epoch.
AsDateTimeValue(dateTime) == dateTime.instant

\* DatabaseStore.fromDateTimeValue: the same instant, in UTC.
FromDateTimeValue(value) == [instant |-> value, zone |-> "UTC"]

\* DatabaseStore.asDurationValue: duration.total_seconds(), a float.
AsDurationValue(duration) ==
    CASE duration = "0:00:04" -> "4.0"
      [] duration = "0:00:09" -> "9.0"

\* Mutant of FromDurationValue: the value read as minutes.
FromDurationValueMinutes(value) ==
    CASE value = "4.0" -> "0:04:00"
      [] value = "9.0" -> "0:09:00"

\* DatabaseStore.fromDurationValue: TimeDelta(seconds=value)
FromDurationValue(value) ==
    CASE value = "4.0" -> "0:00:04"
      [] value = "9.0" -> "0:00:09"

\* str(transmission.path): the parts of the path joined into one text.
AsFileName(path) == <<path.dir, path.name>>

\* Path(row["FILE_NAME"]): the text split into the parts of a path.
FromFileName(text) == [dir |-> text[1], name |-> text[2]]

\* The where-clause of the transmission and setTransmission queries.
RowMatches(row, eventID, system, channel, startTime) ==
    /\ row.EVENT = eventID
    /\ row.SYSTEM = system
    /\ row.CHANNEL = channel
    /\ row.START_TIME = AsDateTimeValue(startTime)

MatchingRows(cat, eventID, system, channel, startTime) ==
    {i \in 1..Len(cat) : RowMatches(cat[i], eventID, system, channel, startTime)}

RowAsTransmission(row) ==
    [eventID |-> row.EVENT,
     station |-> row.STATION,
     system |-> row.SYSTEM,
     channel |-> row.CHANNEL,
     startTime |-> FromDateTimeValue(row.START_TIME),
     duration |-> IF row.DURATION = NULL THEN NULL
                  ELSE FromDurationValue(row.DURATION),
     path |-> FromFileName(row.FILE_NAME),
     sha256 |-> row.SHA256,
     transcription |-> row.TRANSCRIPTION]

\* DatabaseStore.transmission: the first matching row as a record, in a set
\* that is empty when the method returns None.
StoreTransmission(cat, eventID, system, channel, startTime) ==
    LET found == MatchingRows(cat, eventID, system, channel, startTime)
    IN  IF found = {} THEN {}
        ELSE {RowAsTransmission(cat[CHOOSE i \in found : \A j \in found : i <= j])}

\* Mutant of NewRow: station and channel bound to each other's parameter.
NewRowSwapped(tx) ==
    [EVENT |-> tx.eventID,
     STATION |-> tx.channel,
     SYSTEM |-> tx.system,
     CHANNEL |-> tx.station,
     START_TIME |-> AsDateTimeValue(tx.startTime),
     DURATION |-> IF tx.duration = NULL THEN NULL
                  ELSE AsDurationValue(tx.duration),
     FILE_NAME |-> AsFileName(tx.path),
     SHA256 |-> tx.sha256,
     TRANSCRIPTION |-> tx.transcription]

\* The parameters createTransmission binds to the insert: the new row.
NewRow(tx) ==
    [EVENT |-> tx.eventID,
     STATION |-> tx.station,
     SYSTEM |-> tx.system,
     CHANNEL |-> tx.channel,
     START_TIME |-> AsDateTimeValue(tx.startTime),
     DURATION |-> IF tx.duration = NULL THEN NULL
                  ELSE AsDurationValue(tx.duration),
     FILE_NAME |-> AsFileName(tx.path),
     SHA256 |-> tx.sha256,
     TRANSCRIPTION |-> tx.transcription]

RowKey(row) == <<row.EVENT, row.SYSTEM, row.CHANNEL, row.START_TIME>>

\* PRIMARY KEY (EVENT, SYSTEM, CHANNEL, START_TIME) of the TRANSMISSION table.
PrimaryKeyTaken(cat, row) == \E i \in 1..Len(cat) : RowKey(cat[i]) = RowKey(row)

\* Mutant of CreateTransmission: "insert or replace", the new row taking
\* the place of the row that has its key.
CreateTransmissionOrReplace(cat, tx) ==
    [ok |-> TRUE,
     cat |-> IF PrimaryKeyTaken(cat, NewRow(tx))
             THEN [i \in 1..Len(cat) |->
                      IF RowKey(cat[i]) = RowKey(NewRow(tx)) THEN NewRow(tx)
                      ELSE cat[i]]
             ELSE Append(cat, NewRow(tx))]

\* Mutant of CreateTransmission: the insert is reported done and adds no row.
CreateTransmissionNoInsert(cat, tx) == [ok |-> TRUE, cat |-> cat]

\* DatabaseStore.createTransmission: the insert.  ok is FALSE, and the table
\* unchanged, when the insert raises.
CreateTransmission(cat, tx) ==
    IF PrimaryKeyTaken(cat, NewRow(tx))
    THEN [ok |-> FALSE, cat |-> cat]
    ELSE [ok |-> TRUE, cat |-> Append(cat, NewRow(tx))]

\* update TRANSMISSION set {column} = :value where <key>
SetTransmissionAttribute(cat, tx, column, value) ==
    [i \in 1..Len(cat) |->
        IF RowMatches(cat[i], tx.eventID, tx.system, tx.channel, tx.startTime)
        THEN [cat[i] EXCEPT ![column] = value]
        ELSE cat[i]]

\* select ... from TRANSMISSION: every row, in table order.
StoreTransmissions(cat) == [i \in 1..Len(cat) |-> RowAsTransmission(cat[i])]

----------------------------------------------------------------------------
(* Derivation capabilities.  The value each one yields is a function of    *)
(* the bytes of the file, which change when contentGen changes.            *)

DurationOfFile(gen) == IF gen = 0 THEN "0:00:04" ELSE "0:00:09"
Sha256OfFile(gen) == IF gen = 0 THEN "sha256-of-bytes-0" ELSE "sha256-of-bytes-1"
TranscriptionOfFile(gen) == IF gen = 0 THEN "text-0" ELSE "text-1"
\* op.failure.value, as str() renders it.
FailureDescription == "transcriber failed"
\* f"*** ERROR: {op.failure.value}"
ErrorSentinel == "*** ERROR: " \o FailureDescription

\* Indexer._whisper before the first whisper() call of the process.
NoWhisper == [model |-> NULL, loads |-> 0]

\* Mutant of Whisper: the "is None" test is left out.
WhisperAlwaysLoads(wh) == [model |-> "large", loads |-> wh.loads + 1]

\* Indexer.whisper(): load the model unless the class already holds one.
Whisper(wh) ==
    IF wh.model = NULL THEN [model |-> "large", loads |-> wh.loads + 1]
    ELSE wh

----------------------------------------------------------------------------
VARIABLES
    tree,          \* the files under root, in walk order
    contentGen,    \* generation of the files' bytes
    events,        \* rows of the EVENT table
    catalog,       \* rows of the TRANSMISSION table, in insertion order
    phase,         \* "idle", "running", "returned" or "raised"
    runsLeft,      \* indexIntoStore calls still to be made
    flags,         \* keyword arguments of the current indexIntoStore call
    taskQueue,     \* the deque of not yet started tasks
    scanComplete,  \* IndexerState.scanComplete
    scanner,       \* scanner thread: "none", "walking" or "done"
    scanPos,       \* index in tree of the next file the scanner visits
    worker,        \* state of each CooperativeTask of runInParallel
    awaiting,      \* the task whose Deferred each paused worker waits for
    genpc,         \* where tasks() stands inside a next() call
    genCaller,     \* the worker whose next() call tasks() is serving
    genDone,       \* tasks() has returned (the generator is exhausted)
    inflight,      \* bag of tasks started and not yet completed
    nStarted,      \* tasks drawn from tasks() and started in this run
    proposed,      \* bag of <<key, attribute>> proposed by ensure in this run
    faults,        \* <<path, attribute>> whose derivation failed in this run
    catalog0,      \* the TRANSMISSION table when the current run started
    failedBefore,  \* history: the <<key, attribute>> whose derivation failed in
                   \* an earlier run (pairs), kept when tracking is on
    detached,      \* the runner's Deferred was cancelled; its CooperativeTasks
                   \* are still scheduled in the Cooperator
    store,         \* "closed", "upgrading" (inside upgradeSchema), "open" or
                   \* "failed" (the store factory raised)
    dbVersion,     \* the version the database reports (_dbSchemaVersion)
    dbVersion0,    \* history: the version it reported before the upgrade
    latestVersion, \* upgradeSchema: the target version
    currentVersion, \* upgradeSchema: local variable
    fromVersion,   \* upgradeSchema: local variable
    attempts,      \* history: the scripts upgradeSchema asked for, in order
    lastCall,      \* the last direct call of a store method, and how it ended
    limiter,       \* a rateLimited generator, its clock and what it released
    search,        \* the search index on disk and the last index the factory made
    whisper,       \* Indexer._whisper, and how often a model was loaded
    timed          \* a timeTasks generator, its clock, its tasks and wrappers

indexVars ==
    <<tree, contentGen, events, catalog, phase, runsLeft, flags, taskQueue,
      scanComplete, scanner, scanPos, worker, awaiting, genpc, genCaller,
      genDone, inflight, nStarted, proposed, faults, catalog0,
      failedBefore, detached, whisper>>

schemaVars ==
    <<store, dbVersion, dbVersion0, latestVersion, currentVersion, fromVersion,
      attempts>>

toolVars == <<limiter, search, timed>>

vars == <<indexVars, schemaVars, lastCall, toolVars>>

Workers == 1..MaxTasks

Task(kind, tx) == [kind |-> kind, tx |-> tx]

KeyOf(tx) == <<tx.eventID, tx.system, tx.channel, AsDateTimeValue(tx.startTime)>>

NoFlags == [existingOnly |-> FALSE, computeChecksum |-> FALSE,
            computeTranscription |-> FALSE, computeDuration |-> FALSE]

\* No store method has been called directly.
NoCall == [op |-> "none", tx |-> NoTask, column |-> "-", value |-> NULL,
           ok |-> TRUE]

\* The state before the first indexIntoStore call: no TRANSMISSION row.
Start(trees, n, track, eventTables) ==
    /\ tree \in trees
    /\ runsLeft = n
    /\ contentGen = 0
    /\ events \in eventTables
    /\ catalog = <<>>
    /\ phase = "idle"
    /\ flags = NoFlags
    /\ taskQueue = <<>>
    /\ scanComplete = FALSE
    /\ scanner = "none"
    /\ scanPos = 1
    /\ worker = [w \in Workers |-> "done"]
    /\ awaiting = [w \in Workers |-> NoTask]
    /\ genpc = "idle"
    /\ genCaller = 1
    /\ genDone = TRUE
    /\ inflight = EmptyBag
    /\ nStarted = 0
    /\ proposed = EmptyBag
    /\ faults = {}
    /\ catalog0 = <<>>
    /\ failedBefore = [tracking |-> track, pairs |-> {}]
    /\ detached = FALSE
    /\ whisper = NoWhisper
    /\ lastCall = NoCall

\* A store the factory has opened: the database is at the code's version.
Opened ==
    /\ store = "open"
    /\ dbVersion = SchemaVersion
    /\ dbVersion0 = SchemaVersion
    /\ latestVersion = SchemaVersion
    /\ currentVersion = SchemaVersion
    /\ fromVersion = SchemaVersion
    /\ attempts = <<>>

\* A database file before the store is opened, reporting one of versions,
\* and an upgradeSchema call for one of targets.
Unopened(versions, targets) ==
    /\ store = "closed"
    /\ dbVersion \in versions
    /\ dbVersion0 = dbVersion
    /\ latestVersion \in targets
    /\ currentVersion = 0
    /\ fromVersion = 0
    /\ attempts = <<>>

\* Up to MaxRuns runs over a small tree.
\* No rate limiter has been made.
NoLimiter ==
    [state |-> "off", maxRate |-> 0, timeWindow |-> 0, now |-> 0,
     processed |-> <<>>, released |-> <<>>, yielded |-> <<>>, stalls |-> 0,
     left |-> 0]

Unlimited == limiter = NoLimiter

\* No search index directory exists and the factory has not been called.
\* dbFile tells whether the store has a dbPath.
NoIndex(dbFile) ==
    [dbFile |-> dbFile, exists |-> FALSE, docs |-> <<>>, mtime |-> 0,
     calls |-> 0,
     last |-> [location |-> "none", reindex |-> FALSE, docs |-> <<>>,
               opened |-> <<>>, existed |-> FALSE, indexTime |-> 0,
               dbTime |-> 0]]

Unindexed == search = NoIndex(TRUE)

\* The source of timeTasks: MaxSource tasks, numbered in source order.
TimedSource == 1..MaxSource

\* timeTasks has not been called.
NoTimer ==
    [state |-> "off", now |-> 0, startTime |-> 0, next |-> 0, count |-> 0,
     task |-> [t \in TimedSource |-> "unstarted"],
     wrapper |-> [t \in TimedSource |-> "unmade"],
     taskStartTime |-> [t \in TimedSource |-> 0],
     started |-> <<>>]

Untimed == timed = NoTimer

\* timeTasks(tasks, logger) has been called on a source of MaxSource tasks:
\* startTime = time(); nothing has been drawn from the generator.
InitTimed ==
    /\ Start(OpenTrees, 0, FALSE, NoEvents)
    /\ Opened
    /\ Unlimited /\ Unindexed
    /\ timed = [NoTimer EXCEPT !.state = "on"]

\* A new catalog, one indexIntoStore run to come, and the search-index
\* factory called by the commands that search.
InitSearch ==
    /\ Start(OpenTrees, 1, FALSE, NoEvents)
    /\ Opened
    /\ Unlimited /\ Untimed
    /\ \E dbFile \in BOOLEAN : search = NoIndex(dbFile)

\* rateLimited(tasks, maxRate, timeWindow=W) has been called on a source of
\* MaxSource tasks; nothing has been drawn from the generator.
InitLimiter ==
    /\ Start(OpenTrees, 0, FALSE, NoEvents)
    /\ Opened
    /\ Unindexed /\ Untimed
    /\ \E maxRate \in 1..MaxRate, timeWindow \in 1..MaxWindow :
          limiter = [state |-> "ready", maxRate |-> maxRate,
                     timeWindow |-> timeWindow, now |-> 0,
                     processed |-> <<>>, released |-> <<>>,
                     yielded |-> <<>>, stalls |-> 0, left |-> MaxSource]

Init == Start(Trees, MaxRuns, FALSE, NoEvents) /\ Opened /\ Unlimited /\ Unindexed /\ Untimed

\* Up to MaxRuns runs over a tree with two recordings.
InitPair == Start(PairTrees, MaxRuns, FALSE, NoEvents) /\ Opened /\ Unlimited /\ Unindexed /\ Untimed

\* One run, which may be cancelled, over a tree with two recordings.
InitCancel == Start(PairTrees, 1, FALSE, NoEvents) /\ Opened /\ Unlimited /\ Unindexed /\ Untimed

\* As Init, over a database that may already hold an EVENT row.
InitEvent == Start(Trees, MaxRuns, FALSE, EventTables) /\ Opened /\ Unlimited /\ Unindexed /\ Untimed

\* upgradeSchema on a database of any version, for any target; no run.
InitSchema ==
    /\ Start(OpenTrees, 0, FALSE, NoEvents)
    /\ Unlimited /\ Unindexed /\ Untimed
    /\ Unopened(-1..MaxVersion, 0..MaxVersion)

\* The store factory, which upgrades to the code's version, and then one run.
InitOpen ==
    /\ Start(OpenTrees, 1, FALSE, NoEvents)
    /\ Unlimited /\ Unindexed /\ Untimed
    /\ Unopened(0..MaxVersion, {SchemaVersion})

\* A client calling the store's methods on a new database; no run.
InitStore == Start(OpenTrees, 0, FALSE, NoEvents) /\ Opened /\ Unlimited /\ Unindexed /\ Untimed

\* As Init, with the history of failed derivations kept from run to run.
InitHistory == Start(Trees, MaxRuns, TRUE, NoEvents) /\ Opened /\ Unlimited /\ Unindexed /\ Untimed

\* One run over a wide tree.
InitWide == Start(WideTrees, 1, FALSE, NoEvents) /\ Opened /\ Unlimited /\ Unindexed /\ Untimed

----------------------------------------------------------------------------
(* Indexer._ensureTransmission                                             *)

\* Mutant of ProposedTasks: the "is None" tests are left out.
ProposedTasksUnconditional(tx, fl) ==
    (IF fl.computeChecksum THEN <<Task("signature", tx)>> ELSE <<>>)
    \o (IF fl.computeDuration THEN <<Task("duration", tx)>> ELSE <<>>)
    \o (IF fl.computeTranscription THEN <<Task("transcription", tx)>> ELSE <<>>)

\* Mutant of ProposedTasks: the compute flags are not consulted.
ProposedTasksIgnoringFlags(tx, fl) ==
    (IF tx.sha256 = NULL THEN <<Task("signature", tx)>> ELSE <<>>)
    \o (IF tx.duration = NULL THEN <<Task("duration", tx)>> ELSE <<>>)
    \o (IF tx.transcription = NULL
        THEN <<Task("transcription", tx)>> ELSE <<>>)

\* The tasks ensure appends for the record it settled on, in append order.
ProposedTasks(tx, fl) ==
    (IF fl.computeChecksum /\ tx.sha256 = NULL
     THEN <<Task("signature", tx)>> ELSE <<>>)
    \o (IF fl.computeDuration /\ tx.duration = NULL
        THEN <<Task("duration", tx)>> ELSE <<>>)
    \o (IF fl.computeTranscription /\ tx.transcription = NULL
        THEN <<Task("transcription", tx)>> ELSE <<>>)

\* Mutant of SettledRecord: ensure goes on with the scanned record.
SettledRecordScanned(tx, existing) == tx

\* The record ensure goes on with after finding an existing row.
SettledRecord(tx, existing) == existing

\* Mutant of EnsureTransmission: the path comparison and its return are
\* left out.
EnsureTransmissionNoPathCheck(cat, tx, fl) ==
    LET found == StoreTransmission(cat, tx.eventID, tx.system, tx.channel,
                                   tx.startTime)
    IN  IF found = {}
        THEN LET created == CreateTransmission(cat, tx)
             IN  [cat |-> created.cat,
                  tasks |-> IF created.ok THEN ProposedTasks(tx, fl) ELSE <<>>]
        ELSE LET existing == CHOOSE e \in found : TRUE
             IN  IF tx.station # existing.station
                 THEN [cat |-> cat, tasks |-> <<>>]
                 ELSE [cat |-> cat,
                       tasks |-> ProposedTasks(SettledRecord(tx, existing), fl)]

\* _ensureTransmission(store, tx, taskQueue, ...) on catalog cat: the catalog
\* it leaves and the tasks it appends.
EnsureTransmission(cat, tx, fl) ==
    LET found == StoreTransmission(cat, tx.eventID, tx.system, tx.channel,
                                   tx.startTime)
    IN  IF found = {}
        THEN LET created == CreateTransmission(cat, tx)
             IN  [cat |-> created.cat,
                  tasks |-> IF created.ok THEN ProposedTasks(tx, fl) ELSE <<>>]
        ELSE LET existing == CHOOSE e \in found : TRUE
             IN  IF tx.station # existing.station
                 THEN [cat |-> cat, tasks |-> <<>>]
                 ELSE IF tx.path # existing.path
                 THEN [cat |-> cat, tasks |-> <<>>]
                 ELSE [cat |-> cat,
                       tasks |-> ProposedTasks(SettledRecord(tx, existing), fl)]

\* <<key, attribute>> of an enrichment task.
Proposal(task) == <<KeyOf(task.tx), task.kind>>

ProposalsOf(tasks) ==
    LET F[i \in 0..Len(tasks)] ==
            IF i = 0 THEN EmptyBag
            ELSE F[i - 1] (+) SetToBag({Proposal(tasks[i])})
    IN  F[Len(tasks)]

----------------------------------------------------------------------------
(* Direct calls of the store's methods                                     *)

\* runOperation of the update statement: TRUE, the statement raises nothing
\* whether or not a row matches its where clause.
UpdateCompletes(cat, tx) == TRUE

\* store.createTransmission(tx)
CallCreateTransmission ==
    /\ \E tx \in ApiRecords :
         LET created == CreateTransmission(catalog, tx)
         IN  /\ catalog' = created.cat
             /\ lastCall' = [op |-> "createTransmission", tx |-> tx,
                             column |-> "-", value |-> NULL, ok |-> created.ok]
    /\ UNCHANGED <<tree, contentGen, events, phase, runsLeft, flags, taskQueue,
                   scanComplete, scanner, scanPos, worker, awaiting, genpc,
                   genCaller, genDone, inflight, nStarted, proposed, faults,
                   catalog0, failedBefore, detached, whisper>>
    /\ UNCHANGED <<schemaVars, toolVars>>

\* store.setTransmissionDuration / SHA256 / Transcription for the key of tx
CallSetTransmissionAttribute ==
    /\ \E tx \in ApiRecords, column \in {"DURATION", "SHA256", "TRANSCRIPTION"} :
       \E value \in ApiValues(column) :
         /\ catalog' = SetTransmissionAttribute(catalog, tx, column, value)
         /\ lastCall' = [op |-> "setTransmissionAttribute", tx |-> tx,
                         column |-> column, value |-> value,
                         ok |-> UpdateCompletes(catalog, tx)]
    /\ UNCHANGED <<tree, contentGen, events, phase, runsLeft, flags, taskQueue,
                   scanComplete, scanner, scanPos, worker, awaiting, genpc,
                   genCaller, genDone, inflight, nStarted, proposed, faults,
                   catalog0, failedBefore, detached, whisper>>
    /\ UNCHANGED <<schemaVars, toolVars>>

----------------------------------------------------------------------------
(* rateLimited.  Times are in ticks of half a second, so maxPerWindow =     *)
(* maxRate * timeWindow is compared doubled: 2 * count against              *)
(* maxRate * timeWindow-in-ticks.                                           *)

\* taskCount: the entries of processed that are inside the rolling window.
InWindow(processed, now, timeWindow) ==
    SelectSeq(processed, LAMBDA t : t > now - timeWindow)

\* assert len(processed) <= maxPerWindow
WithinLimit(count, maxRate, timeWindow) == 2 * count <= maxRate * timeWindow

\* Mutant of AtLimit: stalls only above the limit.
AtLimitAbove(count, maxRate, timeWindow) == 2 * count > maxRate * timeWindow

\* if taskCount() >= maxPerWindow
AtLimit(count, maxRate, timeWindow) == 2 * count >= maxRate * timeWindow

\* for task in tasks: the task the loop is at when left tasks of the source,
\* numbered 1..MaxSource in source order, have not been yielded.
NextSourceTask(left) == MaxSource - left + 1

\* The consumer calls next() on the generator.
DrawLimited ==
    /\ limiter.state = "ready"
    /\ LET kept == InWindow(limiter.processed, limiter.now, limiter.timeWindow)
       IN  limiter' =
             IF limiter.left = 0
             THEN [limiter EXCEPT !.state = "done"]
             ELSE IF ~WithinLimit(Len(kept), limiter.maxRate, limiter.timeWindow)
             THEN [limiter EXCEPT !.state = "failed", !.processed = kept]
             ELSE IF AtLimit(Len(kept), limiter.maxRate, limiter.timeWindow)
             THEN [limiter EXCEPT
                     !.processed = kept,
                     !.stalls = IF @ < MaxStalls THEN @ + 1 ELSE @]
             ELSE [limiter EXCEPT
                     !.processed = Append(kept, limiter.now),
                     !.released = Append(@, limiter.now),
                     !.yielded = Append(@, NextSourceTask(limiter.left)),
                     !.left = @ - 1]
    /\ UNCHANGED <<indexVars, schemaVars, lastCall, search, timed>>

\* time() advances by one tick.
Tick ==
    /\ limiter.state = "ready"
    /\ limiter.now < MaxTime
    /\ limiter' = [limiter EXCEPT !.now = @ + 1]
    /\ UNCHANGED <<indexVars, schemaVars, lastCall, search, timed>>

----------------------------------------------------------------------------
(* timeTasks.  time() is read from a clock that the model advances in      *)
(* ticks; two reads with no tick between them return the same value.       *)

\* How timeTask(task) ends once its task has fired: with the task's failure,
\* or after the two log events, the second of which divides the count by
\* totalDuration.
WrapperOutcome(ok, totalDuration) ==
    IF ~ok THEN "failed"
    ELSE IF totalDuration = 0 THEN "raised"
    ELSE "done"

\* The consumer calls next() on the generator expression, which takes the
\* next task from the source and makes its wrapper, and starts the wrapper:
\* taskStartTime = time(), await task.
DrawTimed ==
    /\ timed.state = "on"
    /\ timed.next < MaxSource
    /\ LET t == timed.next + 1
       IN  timed' = [timed EXCEPT
                       !.next = t,
                       !.wrapper[t] = "awaiting",
                       !.task[t] = "running",
                       !.taskStartTime[t] = timed.now,
                       !.started = Append(@, t)]
    /\ UNCHANGED <<indexVars, schemaVars, lastCall, limiter, search>>

\* Task t fires, with a result or a failure, and its wrapper goes on from
\* "await task" to its end.  The clock may tick between the wrapper's two
\* reads of time().
SettleTimed(t) ==
    /\ timed.state = "on"
    /\ timed.task[t] = "running"
    /\ \E ok \in BOOLEAN, later \in {timed.now, timed.now + 1} :
         /\ later <= MaxTime
         /\ timed' = [timed EXCEPT
                        !.task[t] = IF ok THEN "ok" ELSE "failed",
                        !.count = IF ok THEN @ + 1 ELSE @,
                        !.now = IF ok THEN later ELSE @,
                        !.wrapper[t] =
                            WrapperOutcome(ok, later - timed.startTime)]
    /\ UNCHANGED <<indexVars, schemaVars, lastCall, limiter, search>>

\* time() advances by one tick.
TickTimed ==
    /\ timed.state = "on"
    /\ timed.now < MaxTime
    /\ timed' = [timed EXCEPT !.now = @ + 1]
    /\ UNCHANGED <<indexVars, schemaVars, lastCall, limiter, search>>

----------------------------------------------------------------------------
(* DatabaseManager.upgradeSchema, called by the store factory              *)

\* The name of the schema file sqlUpgrade loads: <<N>> is "N", <<N, M>> is
\* "N-from-M".
ScriptName(from, to) == IF from = 0 THEN <<to>> ELSE <<to, from>>

\* Mutant of ToVersion: the upgrade from version 0 goes one version up too.
ToVersionStepwise(from, latest) == from + 1

\* The version the loop upgrades to next.
ToVersion(from, latest) == IF from = 0 THEN latest ELSE from + 1

\* Mutant of UpgradeEntry: the "too new" test is left out.
UpgradeEntryNoTooNew(current, latest) ==
    IF current < 0 THEN "failed"
    ELSE IF current = latest THEN "open"
    ELSE "upgrading"

\* upgradeSchema before its loop: raise, return False, or go on.
UpgradeEntry(current, latest) ==
    IF current < 0 THEN "failed"
    ELSE IF current = latest THEN "open"
    ELSE IF current > latest THEN "failed"
    ELSE "upgrading"

\* Mutant of VersionNotIncreased: an unchanged version passes.
VersionDecreased(from, current) == from < current

\* "if fromVersion <= currentVersion: raise StorageError"
VersionNotIncreased(from, current) == from <= current

\* What a schema file can be or do: be missing; fail in applySchema, having
\* run in part; or run to its end.  version is the version the database
\* reports afterwards.
ScriptOutcomes ==
    [result : {"missing"}, version : {0}]
    \cup [result : {"failed", "applied"}, version : 0..(MaxVersion + 1)]

Attempt(script, before, after, result) ==
    [script |-> script, before |-> before, after |-> after, result |-> result]

\* upgradeSchema up to its loop.
BeginUpgrade ==
    /\ store = "closed"
    /\ currentVersion' = dbVersion
    /\ fromVersion' = dbVersion
    /\ store' = UpgradeEntry(dbVersion, latestVersion)
    /\ UNCHANGED <<dbVersion, dbVersion0, latestVersion, attempts>>
    /\ UNCHANGED <<indexVars, lastCall, toolVars>>

\* One iteration of the loop: sqlUpgrade(fromVersion, toVersion), the
\* version read back, and the test that it increased.
UpgradeStep ==
    /\ store = "upgrading"
    /\ fromVersion < latestVersion
    /\ LET toVersion == ToVersion(fromVersion, latestVersion)
           script == ScriptName(fromVersion, toVersion)
       IN  \E outcome \in ScriptOutcomes :
             IF outcome.result = "missing"
             THEN /\ attempts' = Append(attempts,
                                 Attempt(script, dbVersion, dbVersion, "missing"))
                  /\ store' = "failed"
                  /\ UNCHANGED <<dbVersion, currentVersion, fromVersion>>
             ELSE IF outcome.result = "failed"
             THEN /\ attempts' = Append(attempts,
                                 Attempt(script, dbVersion, outcome.version, "failed"))
                  /\ dbVersion' = outcome.version
                  /\ store' = "failed"
                  /\ UNCHANGED <<currentVersion, fromVersion>>
             ELSE /\ attempts' = Append(attempts,
                                 Attempt(script, dbVersion, outcome.version, "applied"))
                  /\ dbVersion' = outcome.version
                  /\ fromVersion' = outcome.version
                  /\ IF VersionNotIncreased(outcome.version, currentVersion)
                     THEN store' = "failed" /\ UNCHANGED currentVersion
                     ELSE store' = "upgrading" /\ currentVersion' = outcome.version
    /\ UNCHANGED <<dbVersion0, latestVersion>>
    /\ UNCHANGED <<indexVars, lastCall, toolVars>>

\* The loop is over: upgradeSchema returns True, and the factory the store.
UpgradeReturns ==
    /\ store = "upgrading"
    /\ fromVersion >= latestVersion
    /\ store' = "open"
    /\ UNCHANGED <<dbVersion, dbVersion0, latestVersion, currentVersion,
                   fromVersion, attempts>>
    /\ UNCHANGED <<indexVars, lastCall, toolVars>>

\* Mutant of StoreReady: the application runs after a failed upgrade too.
StoreReadyOrFailed == store \in {"open", "failed"}

\* run(): app(store) is called once the factory has returned the store.
StoreReady == store = "open"

----------------------------------------------------------------------------
(* Search index: TransmissionsIndex and searchIndexFactoryFromConfig.      *)
(* File times are logical: the k-th write of the catalog file happens at   *)
(* time 2k, and an index commit made after k writes is stamped 2k (the     *)
(* tick of the last write), 2k + 1, or 2k + 2 (the tick of the next write). *)

\* The number of writes that made the catalog: one insert per row and one
\* update per derived value.
CatalogWrites(cat) ==
    Len(cat)
    + Cardinality({i \in 1..Len(cat) : cat[i].DURATION # NULL})
    + Cardinality({i \in 1..Len(cat) : cat[i].SHA256 # NULL})
    + Cardinality({i \in 1..Len(cat) : cat[i].TRANSCRIPTION # NULL})

\* store.dbPath.stat().st_mtime
DbMTime(cat) == 2 * CatalogWrites(cat)

\* The time stamps a commit of the index made now can get.
CommitTimes(cat, indexTime) ==
    {t \in {DbMTime(cat), DbMTime(cat) + 1, DbMTime(cat) + 2} : t >= indexTime}

\* The fields add() gives the document of a transmission; a field left out
\* is NULL.
IndexDocument(tx) ==
    [eventID |-> tx.eventID,
     station |-> tx.station,
     system |-> tx.system,
     channel |-> tx.channel,
     startTime |-> tx.startTime.instant,
     path |-> AsFileName(tx.path),
     duration |-> IF tx.duration = NULL THEN NULL
                  ELSE AsDurationValue(tx.duration),
     sha256 |-> tx.sha256,
     transcription |-> tx.transcription]

\* The stored fields of a document that search yields.
DocumentKey(d) == <<d.eventID, d.system, d.channel, d.startTime>>

\* TransmissionsIndex.add: add_document for every transmission, then commit.
IndexAdd(docs, transmissions) ==
    docs \o [i \in 1..Len(transmissions) |-> IndexDocument(transmissions[i])]

\* The words a query can ask for.
Queries == {"text-0", "text-1", "ERROR"}

\* Whether the full-text engine matches the query against the text.
Matches(text, q) ==
    IF text = NULL THEN FALSE
    ELSE IF q = "ERROR" THEN text = ErrorSentinel
    ELSE text = q

\* TransmissionsIndex.search: the stored key of every matching document.
Search(docs, q) ==
    LET hits == SelectSeq(docs, LAMBDA d : Matches(d.transcription, q))
    IN  [i \in 1..Len(hits) |-> DocumentKey(hits[i])]

\* Mutant of KeepIndex: an index stamped with the time of the catalog file
\* is kept as well.
KeepIndexOnEqual(location, exists, dbFile, indexTime, dbTime) ==
    /\ location = "path"
    /\ exists
    /\ dbFile
    /\ indexTime >= dbTime

\* factory: the condition under which reindex becomes False.
KeepIndex(location, exists, dbFile, indexTime, dbTime) ==
    /\ location = "path"
    /\ exists
    /\ dbFile
    /\ indexTime > dbTime

\* Mutant of Connect: the index is always made anew.
ConnectAlwaysCreates(location, exists, docs) == <<>>

\* TransmissionsIndex.connect: the documents of the index it opens or makes.
Connect(location, exists, docs) ==
    IF location = "memory" THEN <<>>
    ELSE IF exists THEN docs
    ELSE <<>>

\* searchIndexFactoryFromConfig.factory(store), with SearchIndex.File set to
\* a path or to the empty string.
SearchIndexFactory ==
    /\ StoreReady
    /\ search.calls < MaxBuilds
    /\ \E location \in {"memory", "path"} :
         LET keep == KeepIndex(location, search.exists, search.dbFile,
                               search.mtime, DbMTime(catalog))
             opened == Connect(location, search.exists, search.docs)
             index == IF keep THEN opened
                      ELSE IndexAdd(opened, StoreTransmissions(catalog))
             last == [location |-> location, reindex |-> ~keep,
                      docs |-> index, opened |-> opened,
                      existed |-> search.exists, indexTime |-> search.mtime,
                      dbTime |-> DbMTime(catalog)]
         IN  \E t \in CommitTimes(catalog, search.mtime) :
               search' =
                 IF location = "memory"
                 THEN [search EXCEPT !.calls = @ + 1, !.last = last]
                 ELSE [search EXCEPT
                         !.calls = @ + 1,
                         !.last = last,
                         !.exists = TRUE,
                         !.docs = index,
                         !.mtime = IF keep THEN @ ELSE t]
    /\ UNCHANGED <<indexVars, schemaVars, lastCall, limiter, timed>>

----------------------------------------------------------------------------
(* Indexer.indexIntoStore: set-up                                          *)

\* taskQueue after queueTransmission was called for each record of txs.
QueueTransmissions(txs) == [i \in 1..Len(txs) |-> Task("ensure", txs[i])]

\* insert into EVENT: raises when the id is taken.
EventIdTaken(evs, event) == \E e \in evs : e.id = event.id

\* Mutant of StartRun: existingOnly is not consulted, every run scans.
StartRunAlwaysScanning ==
    /\ StoreReady
    /\ phase \in {"idle", "returned", "raised"}
    /\ ~detached
    /\ runsLeft > 0
    /\ runsLeft' = runsLeft - 1
    /\ \E existingOnly, computeChecksum, computeTranscription,
          computeDuration \in BOOLEAN :
         flags' = [existingOnly |-> existingOnly,
                   computeChecksum |-> computeChecksum,
                   computeTranscription |-> computeTranscription,
                   computeDuration |-> computeDuration]
    /\ \E gen \in {contentGen, 1} : contentGen' = gen
    /\ IF TheEvent \notin events /\ EventIdTaken(events, TheEvent)
       THEN /\ phase' = "raised"
            /\ UNCHANGED <<events, taskQueue, scanComplete, scanner, worker,
                           genDone, whisper>>
       ELSE /\ phase' = "running"
            /\ events' = events \cup {TheEvent}
            /\ taskQueue' = <<>>
            /\ scanComplete' = FALSE
            /\ scanner' = "walking"
            /\ whisper' = IF flags'.computeTranscription
                          THEN Whisper(whisper) ELSE whisper
            /\ worker' = [w \in Workers |-> "ready"]
            /\ genDone' = FALSE
    /\ scanPos' = 1
    /\ awaiting' = [w \in Workers |-> NoTask]
    /\ genpc' = "idle"
    /\ inflight' = EmptyBag
    /\ nStarted' = 0
    /\ proposed' = EmptyBag
    /\ faults' = {}
    /\ catalog0' = catalog
    /\ failedBefore' = IF failedBefore.tracking
                       THEN [failedBefore EXCEPT !.pairs = @ \cup faults]
                       ELSE failedBefore
    /\ UNCHANGED <<tree, catalog, genCaller, detached>>
    /\ UNCHANGED <<schemaVars, lastCall, toolVars>>

\* indexIntoStore up to (not including) the await of runInParallel: the event
\* bootstrap, the queue, the scan thread or the existing rows, the workers.
StartRun ==
    /\ StoreReady
    /\ phase \in {"idle", "returned", "raised"}
    /\ ~detached
    /\ runsLeft > 0
    /\ runsLeft' = runsLeft - 1
    /\ \E existingOnly, computeChecksum, computeTranscription,
          computeDuration \in BOOLEAN :
         flags' = [existingOnly |-> existingOnly,
                   computeChecksum |-> computeChecksum,
                   computeTranscription |-> computeTranscription,
                   computeDuration |-> computeDuration]
    /\ \E gen \in {contentGen, 1} : contentGen' = gen
    /\ IF TheEvent \notin events /\ EventIdTaken(events, TheEvent)
       THEN /\ phase' = "raised"
            /\ UNCHANGED <<events, taskQueue, scanComplete, scanner, worker,
                           genDone, whisper>>
       ELSE /\ phase' = "running"
            /\ events' = events \cup {TheEvent}
            /\ taskQueue' = IF flags'.existingOnly
                            THEN QueueTransmissions(StoreTransmissions(catalog))
                            ELSE <<>>
            /\ scanComplete' = flags'.existingOnly
            /\ scanner' = IF flags'.existingOnly THEN "none" ELSE "walking"
            /\ whisper' = IF flags'.computeTranscription
                          THEN Whisper(whisper) ELSE whisper
            /\ worker' = [w \in Workers |-> "ready"]
            /\ genDone' = FALSE
    /\ scanPos' = 1
    /\ awaiting' = [w \in Workers |-> NoTask]
    /\ genpc' = "idle"
    /\ inflight' = EmptyBag
    /\ nStarted' = 0
    /\ proposed' = EmptyBag
    /\ faults' = {}
    /\ catalog0' = catalog
    /\ failedBefore' = IF failedBefore.tracking
                       THEN [failedBefore EXCEPT !.pairs = @ \cup faults]
                       ELSE failedBefore
    /\ UNCHANGED <<tree, catalog, genCaller, detached>>
    /\ UNCHANGED <<schemaVars, lastCall, toolVars>>

----------------------------------------------------------------------------
(* The scanner thread: scan() over Indexer.transmissions()                 *)

\* The index of the first file after position i that is in a later
\* directory than tree[i] (where the walk goes on after a break).
NextDirectory(i) ==
    LET later == {j \in (i + 1)..Len(tree) : tree[j].dir # tree[i].dir}
    IN  IF later = {} THEN Len(tree) + 1
        ELSE CHOOSE j \in later : \A k \in later : j <= k

\* Where the walk goes on after the file at position i, given the outcome
\* of parsing it.
AfterFile(i, kind) == IF kind = "failure" THEN NextDirectory(i) ELSE i + 1

\* Mutant of ScanFile: the scanner thread runs _ensureTransmission itself
\* instead of queueing it.
ScanFileEnsuring ==
    /\ scanner = "walking"
    /\ scanPos <= Len(tree)
    /\ LET parsed == TransmissionFromFile(tree[scanPos], TheEvent.id)
       IN  /\ scanPos' = AfterFile(scanPos, parsed.kind)
           /\ IF parsed.kind = "tx"
              THEN LET e == EnsureTransmission(catalog, parsed.tx, flags)
                   IN  /\ catalog' = e.cat
                       /\ taskQueue' = taskQueue \o e.tasks
                       /\ proposed' = proposed (+) ProposalsOf(e.tasks)
              ELSE UNCHANGED <<catalog, taskQueue, proposed>>
    /\ UNCHANGED <<tree, contentGen, events, phase, runsLeft, flags,
                   scanComplete, scanner, worker, awaiting, genpc, genCaller,
                   genDone, inflight, nStarted, faults, catalog0,
                   failedBefore, detached, whisper>>
    /\ UNCHANGED <<schemaVars, lastCall, toolVars>>

\* One iteration of the loop over filenames: parse the next file and, for a
\* record, queueTransmission(record).
ScanFile ==
    /\ scanner = "walking"
    /\ scanPos <= Len(tree)
    /\ LET parsed == TransmissionFromFile(tree[scanPos], TheEvent.id)
       IN  /\ scanPos' = AfterFile(scanPos, parsed.kind)
           /\ taskQueue' = IF parsed.kind = "tx"
                           THEN Append(taskQueue, Task("ensure", parsed.tx))
                           ELSE taskQueue
    /\ UNCHANGED <<tree, contentGen, events, catalog, phase, runsLeft, flags,
                   scanComplete, scanner, worker, awaiting, genpc, genCaller,
                   genDone, inflight, nStarted, proposed, faults, catalog0,
                   failedBefore, detached, whisper>>
    /\ UNCHANGED <<schemaVars, lastCall, toolVars>>

\* The walk is over: state.scanComplete = True, and the thread ends.
ScanFinish ==
    /\ scanner = "walking"
    /\ scanPos > Len(tree)
    /\ scanComplete' = TRUE
    /\ scanner' = "done"
    /\ UNCHANGED <<tree, contentGen, events, catalog, phase, runsLeft, flags,
                   taskQueue, scanPos, worker, awaiting, genpc, genCaller,
                   genDone, inflight, nStarted, proposed, faults, catalog0,
                   failedBefore, detached, whisper>>
    /\ UNCHANGED <<schemaVars, lastCall, toolVars>>

----------------------------------------------------------------------------
(* Enrichment tasks                                                        *)

\* _addDuration: the probe and, when it succeeded, the store write.
AddDuration(cat, tx, ok) ==
    IF ok THEN SetTransmissionAttribute(cat, tx, "DURATION",
                   AsDurationValue(DurationOfFile(contentGen)))
    ELSE cat

\* Mutant of AddTranscription: a transcriber failure skips the store write,
\* as a probe failure does in _addDuration.
AddTranscriptionSkipping(cat, tx, ok) ==
    IF ok THEN SetTransmissionAttribute(cat, tx, "TRANSCRIPTION",
                                        TranscriptionOfFile(contentGen))
    ELSE cat

\* _addTranscription: the transcriber and the store write of its text or of
\* the error sentinel.
AddTranscription(cat, tx, ok) ==
    SetTransmissionAttribute(cat, tx, "TRANSCRIPTION",
        IF ok THEN TranscriptionOfFile(contentGen) ELSE ErrorSentinel)

\* _addSignature after deferToThread fired with a digest: the store write.
AddSignature(cat, tx) ==
    SetTransmissionAttribute(cat, tx, "SHA256", Sha256OfFile(contentGen))

\* The deque after taskQueue.pop(), and the task it returned.
QueueAfterPop(q) == SubSeq(q, 1, Len(q) - 1)
PoppedTask(q) == q[Len(q)]

\* ensureDeferred(task) for the task tasks() popped, run up to its first
\* unfired Deferred, and what the worker that drew it does with the result.
StartTask(w, task, rest) ==
    /\ nStarted' = nStarted + 1
    /\ genpc' = "idle"
    /\ genCaller' = w
    /\ IF task.kind = "ensure"
       THEN LET e == EnsureTransmission(catalog, task.tx, flags)
            IN  /\ catalog' = e.cat
                /\ taskQueue' = rest \o e.tasks
                /\ proposed' = proposed (+) ProposalsOf(e.tasks)
                /\ UNCHANGED <<worker, awaiting, inflight, faults, whisper>>
       ELSE IF task.kind = "duration"
       THEN \E ok \in BOOLEAN :
                /\ catalog' = AddDuration(catalog, task.tx, ok)
                /\ faults' = IF ok THEN faults
                             ELSE faults \cup {Proposal(task)}
                /\ taskQueue' = rest
                /\ UNCHANGED <<worker, awaiting, inflight, proposed, whisper>>
       ELSE IF task.kind = "transcription"
       THEN \E ok \in BOOLEAN :
                /\ whisper' = Whisper(whisper)
                /\ catalog' = AddTranscription(catalog, task.tx, ok)
                /\ faults' = IF ok THEN faults
                             ELSE faults \cup {Proposal(task)}
                /\ taskQueue' = rest
                /\ UNCHANGED <<worker, awaiting, inflight, proposed>>
       ELSE /\ worker' = [worker EXCEPT ![w] = "paused"]
            /\ awaiting' = [awaiting EXCEPT ![w] = task]
            /\ inflight' = inflight (+) SetToBag({task})
            /\ taskQueue' = rest
            /\ UNCHANGED <<catalog, proposed, faults, whisper>>

\* tasks() at "while taskQueue": pop and yield a task, or go on to the
\* scanComplete test.
PollQueue(w) ==
    IF taskQueue # <<>>
    THEN StartTask(w, PoppedTask(taskQueue), QueueAfterPop(taskQueue))
    ELSE /\ genpc' = "emptySeen"
         /\ genCaller' = w
         /\ UNCHANGED <<catalog, taskQueue, worker, awaiting, inflight,
                        nStarted, proposed, faults, whisper>>

\* The CooperativeTasks of runInParallel are scheduled: the runner is awaited,
\* or it was cancelled and they go on without it.
Working == IF detached THEN TRUE ELSE phase = "running"

\* Mutant of MayDraw: a worker takes work units while the Deferred it drew is
\* still unfired.
MayDrawWhilePaused(w) == worker[w] \in {"ready", "paused"}

\* Which workers the Cooperator lets take a work unit.
MayDraw(w) == worker[w] = "ready"

\* CooperativeTask._oneWorkUnit: next() on the shared task generator.
Draw(w) ==
    /\ Working
    /\ MayDraw(w)
    /\ genpc = "idle"
    /\ IF genDone
       THEN /\ worker' = [worker EXCEPT ![w] = "done"]
            /\ UNCHANGED <<catalog, taskQueue, awaiting, genpc, genCaller,
                           inflight, nStarted, proposed, faults, whisper>>
       ELSE PollQueue(w)
    /\ UNCHANGED <<tree, contentGen, events, phase, runsLeft, flags, scanComplete,
                   scanner, scanPos, genDone, catalog0,
                   failedBefore, detached>>
    /\ UNCHANGED <<schemaVars, lastCall, toolVars>>

\* tasks() at "if state.scanComplete: break", after it saw the queue empty.
CheckScanComplete ==
    /\ Working
    /\ genpc = "emptySeen"
    /\ IF scanComplete
       THEN /\ genDone' = TRUE
            /\ genpc' = "idle"
            /\ worker' = [worker EXCEPT ![genCaller] = "done"]
       ELSE /\ genpc' = "sleeping"
            /\ UNCHANGED <<genDone, worker>>
    /\ UNCHANGED <<tree, contentGen, events, catalog, phase, runsLeft, flags,
                   taskQueue, scanComplete, scanner, scanPos, awaiting,
                   genCaller, inflight, nStarted, proposed, faults, catalog0,
                   failedBefore, detached, whisper>>
    /\ UNCHANGED <<schemaVars, lastCall, toolVars>>

\* tasks() after sleep(0.01): back at "while taskQueue".
Wake ==
    /\ Working
    /\ genpc = "sleeping"
    /\ PollQueue(genCaller)
    /\ UNCHANGED <<tree, contentGen, events, phase, runsLeft, flags, scanComplete,
                   scanner, scanPos, genDone, catalog0,
                   failedBefore, detached>>
    /\ UNCHANGED <<schemaVars, lastCall, toolVars>>

\* The pool thread of a signature task is done and its Deferred fires in the
\* reactor: with a digest (the store write follows and the worker resumes)
\* or with a failure (the task fails, and the worker with it).
SignatureDone(w) ==
    /\ Working
    /\ worker[w] = "paused"
    /\ genpc = "idle"
    /\ \E ok \in BOOLEAN :
         /\ catalog' = IF ok THEN AddSignature(catalog, awaiting[w].tx)
                       ELSE catalog
         /\ worker' = [worker EXCEPT ![w] = IF ok THEN "ready" ELSE "failed"]
         /\ faults' = IF ok THEN faults
                      ELSE faults \cup {Proposal(awaiting[w])}
    /\ inflight' = inflight (-) SetToBag({awaiting[w]})
    /\ awaiting' = [awaiting EXCEPT ![w] = NoTask]
    /\ UNCHANGED <<tree, contentGen, events, phase, runsLeft, flags, taskQueue,
                   scanComplete, scanner, scanPos, genpc, genCaller, genDone,
                   nStarted, proposed, catalog0,
                   failedBefore, detached, whisper>>
    /\ UNCHANGED <<schemaVars, lastCall, toolVars>>

\* Mutant of RunnerReturns: the DeferredList fires with the first
\* CooperativeTask that is over (fireOnOneCallback, fireOnOneErrback).
RunnerReturnsOnFirst ==
    /\ phase = "running"
    /\ \E w \in Workers : worker[w] \in {"done", "failed"}
    /\ phase' = IF scanComplete THEN "returned" ELSE "raised"
    /\ UNCHANGED <<tree, contentGen, events, catalog, runsLeft, flags, taskQueue,
                   scanComplete, scanner, scanPos, worker, awaiting, genpc,
                   genCaller, genDone, inflight, nStarted, proposed, faults,
                   catalog0, failedBefore, detached, whisper>>
    /\ UNCHANGED <<schemaVars, lastCall, toolVars>>

\* Every CooperativeTask is over: the DeferredList fires, runInParallel
\* returns, and indexIntoStore asserts state.scanComplete and joins the scan.
RunnerReturns ==
    /\ phase = "running"
    /\ \A w \in Workers : worker[w] \in {"done", "failed"}
    /\ phase' = IF scanComplete THEN "returned" ELSE "raised"
    /\ UNCHANGED <<tree, contentGen, events, catalog, runsLeft, flags, taskQueue,
                   scanComplete, scanner, scanPos, worker, awaiting, genpc,
                   genCaller, genDone, inflight, nStarted, proposed, faults,
                   catalog0,
                   failedBefore, detached, whisper>>
    /\ UNCHANGED <<schemaVars, lastCall, toolVars>>

\* cancel() on the Deferred of indexIntoStore while it awaits runInParallel
\* and tasks are in flight.
\* The DeferredList cancels the Deferreds of coiterate, which have no
\* canceller: each fails with CancelledError, the DeferredList fires with
\* the list of results, runInParallel returns, and indexIntoStore goes on to
\* its assert.  The CooperativeTasks are not stopped.
Cancel ==
    /\ phase = "running"
    /\ inflight # EmptyBag
    /\ phase' = IF scanComplete THEN "returned" ELSE "raised"
    /\ detached' = TRUE
    /\ UNCHANGED <<tree, contentGen, events, catalog, runsLeft, flags, taskQueue,
                   scanComplete, scanner, scanPos, worker, awaiting, genpc,
                   genCaller, genDone, inflight, nStarted, proposed, faults,
                   catalog0, failedBefore, whisper>>
    /\ UNCHANGED <<schemaVars, lastCall, toolVars>>

Next ==
    \/ StartRun
    \/ ScanFile
    \/ ScanFinish
    \/ \E w \in Workers : Draw(w)
    \/ CheckScanComplete
    \/ Wake
    \/ \E w \in Workers : SignatureDone(w)
    \/ RunnerReturns

Spec == Init /\ [][Next]_vars

\* The steps of a program whose enclosing runtime may cancel the run while
\* tasks are in flight.
NextCancel ==
    \/ Next
    \/ Cancel

SpecCancel == InitCancel /\ [][NextCancel]_vars

SpecEvent == InitEvent /\ [][Next]_vars

SpecHistory == InitHistory /\ [][Next]_vars

\* A run of the indexer, and the commands that make a search index.
NextSearch ==
    \/ Next
    \/ SearchIndexFactory

SpecSearch == InitSearch /\ [][NextSearch]_vars

\* The steps of the consumer of a rate-limited generator, and of its clock.
NextLimiter ==
    \/ DrawLimited
    \/ Tick

SpecLimiter == InitLimiter /\ [][NextLimiter]_vars

NextTimed ==
    \/ DrawTimed
    \/ \E t \in TimedSource : SettleTimed(t)
    \/ TickTimed

SpecTimed == InitTimed /\ [][NextTimed]_vars

\* The steps of a client of the store.
NextStore ==
    \/ CallCreateTransmission
    \/ CallSetTransmissionAttribute

SpecStore == InitStore /\ [][NextStore]_vars

\* The steps of upgradeSchema.
NextSchema ==
    \/ BeginUpgrade
    \/ UpgradeStep
    \/ UpgradeReturns

SpecSchema == InitSchema /\ [][NextSchema]_vars

\* The steps of a command: the store factory, then the application.
NextOpen ==
    \/ NextSchema
    \/ Next

SpecOpen == InitOpen /\ [][NextOpen]_vars

SpecPair == InitPair /\ [][Next]_vars

SpecWide == InitWide /\ [][Next]_vars

----------------------------------------------------------------------------
(* Properties                                                              *)

IsPrefix(a, b) == Len(a) <= Len(b) /\ SubSeq(b, 1, Len(a)) = a

\* The pattern whose grammar a name follows.
GrammarOf(name) ==
    CASE name.form = "g2017" -> "2017"
      [] name.form = "g2023" -> "2023"
      [] OTHER               -> "2024"

\* A .wav file whose name follows one of the three grammars and states a
\* valid date.
MatchesKnownGrammar(file) ==
    /\ file.name.ext = ".wav"
    /\ file.name.form # "none"
    /\ file.name.dateOK

\* The composite key the name's own grammar yields.
KeyFromName(file) ==
    KeyOf(RecordFromMatch(GrammarOf(file.name), file, TheEvent.id))

HasRow(cat, key) == \E i \in 1..Len(cat) : RowKey(cat[i]) = key

\* C1: after indexIntoStore (existingOnly = false) has returned, every .wav
\* file under root whose name matches a known grammar has a row with the
\* composite key parsed from its name.
C1_EveryMatchingFileHasRow ==
    (phase = "returned" /\ ~flags.existingOnly) =>
        \A i \in 1..Len(tree) :
            MatchesKnownGrammar(tree[i]) => HasRow(catalog, KeyFromName(tree[i]))

\* C2: the number of tasks drawn from the task source and started but not
\* yet completed never exceeds maxTasks.
C2_InFlightAtMostMaxTasks == BagCardinality(inflight) <= MaxTasks

\* C2 witness: maxTasks tasks are in flight while another task waits in the
\* queue.
C2_Witness ==
    /\ phase = "running"
    /\ BagCardinality(inflight) = MaxTasks
    /\ taskQueue # <<>>

\* C3: a failing hash computation or store write is confined to its task:
\* the workers go on drawing, so no worker of the runner ends before the
\* task source has ended (scan complete and queue empty).
C3_FailureConfinedToTask ==
    \A w \in Workers : worker[w] \in {"done", "failed"} => genDone

\* C4: tasks are started in the order they were appended: a draw takes the
\* task that has been in the queue longest, so what was queued behind it
\* stays, in order, at the front of the queue.
C4_TasksStartInFifoOrder ==
    [][nStarted' = nStarted + 1 => IsPrefix(Tail(taskQueue), taskQueue')]_vars

AllFlagsOn ==
    flags.computeChecksum /\ flags.computeDuration /\ flags.computeTranscription

Enriched(row) ==
    row.DURATION # NULL /\ row.SHA256 # NULL /\ row.TRANSCRIPTION # NULL

Bare(row) ==
    row.DURATION = NULL /\ row.SHA256 = NULL /\ row.TRANSCRIPTION = NULL

InTree(file) == \E i \in 1..Len(tree) : tree[i] = file

\* C5: a row whose three derived attributes were all NULL when a run with
\* all three compute flags started, and whose file is in the tree, has all
\* three non-null when indexIntoStore returns, provided no hasher, probe or
\* transcriber call failed in the run.
C5_BareRowEnrichedOnReturn ==
    (phase = "returned" /\ AllFlagsOn /\ faults = {}) =>
        \A i \in 1..Len(catalog0) :
            (Bare(catalog0[i]) /\ InTree(FromFileName(catalog0[i].FILE_NAME)))
            => Enriched(catalog[i])

\* The rows a lookup by the key of the recording in this file selects.
RowsForFile(file) ==
    LET tx == RecordFromMatch(GrammarOf(file.name), file, TheEvent.id)
    IN  MatchingRows(catalog, tx.eventID, tx.system, tx.channel, tx.startTime)

\* C6: the catalog holds at most one row per (eventID, system, channel,
\* startTime): no two rows have the same key columns, no two rows were made
\* from recordings whose names parse to the same composite key, and the
\* lookup by the key of any file in the tree selects at most one row.
C6_AtMostOneRowPerKey ==
    /\ \A i, j \in 1..Len(catalog) :
          (\/ RowKey(catalog[i]) = RowKey(catalog[j])
           \/ KeyFromName(FromFileName(catalog[i].FILE_NAME))
              = KeyFromName(FromFileName(catalog[j].FILE_NAME)))
          => i = j
    /\ \A k \in 1..Len(tree) :
          MatchesKnownGrammar(tree[k]) => Cardinality(RowsForFile(tree[k])) <= 1

\* Two files that parse to the same composite key were both ensured in a
\* run that returned, and the catalog holds one row.
C6_Witness ==
    /\ phase = "returned"
    /\ Len(tree) = 2
    /\ tree[1] # tree[2]
    /\ KeyFromName(tree[1]) = KeyFromName(tree[2])
    /\ nStarted >= 2
    /\ taskQueue = <<>>
    /\ Len(catalog) = 1
    /\ RowsForFile(tree[2]) = {1}

DerivedColumns == {"DURATION", "SHA256", "TRANSCRIPTION"}

\* Every file of the tree parses to a record.
AllFilesParse ==
    \A k \in 1..Len(tree) : TransmissionFromFile(tree[k], TheEvent.id).kind = "tx"

\* C7: once a row's duration, sha256 or transcription is non-null, no step
\* of this or of any later run changes that value (or removes the row).
C7_DerivedValuesKept ==
    [][\A i \in 1..Len(catalog) : \A col \in DerivedColumns :
          catalog[i][col] # NULL =>
              i <= Len(catalog') /\ catalog'[i][col] = catalog[i][col]]_vars

\* A later scan run with all compute flags on, over files whose bytes have
\* changed since, ensured every file and returned, and a row still has the
\* three values an earlier run derived from the old bytes.
C7_Witness ==
    /\ phase = "returned"
    /\ ~flags.existingOnly
    /\ AllFlagsOn
    /\ contentGen = 1
    /\ AllFilesParse
    /\ nStarted >= Len(tree)
    /\ taskQueue = <<>>
    /\ \E i \in 1..Len(catalog0) :
          /\ catalog0[i] = catalog[i]
          /\ InTree(FromFileName(catalog[i].FILE_NAME))
          /\ catalog[i].DURATION = AsDurationValue(DurationOfFile(0))
          /\ catalog[i].SHA256 = Sha256OfFile(0)
          /\ catalog[i].TRANSCRIPTION = TranscriptionOfFile(0)

\* When the current run started, every file of the tree that parses to a
\* record had a row under that record's key with all three derived
\* attributes non-null.
AllEnrichedAtStart ==
    \A k \in 1..Len(tree) :
        LET parsed == TransmissionFromFile(tree[k], TheEvent.id)
        IN  parsed.kind = "tx" =>
                \E i \in 1..Len(catalog0) :
                    /\ RowKey(catalog0[i]) = KeyOf(parsed.tx)
                    /\ Enriched(catalog0[i])

\* C8: a run that starts with every file's row fully enriched proposes no
\* enrichment task and writes no row: at every point of the run, and when it
\* is over, the catalog is the catalog the run started with.
C8_RerunIsNoOp ==
    AllEnrichedAtStart => (catalog = catalog0 /\ proposed = EmptyBag)

\* Such a run, scanning with all compute flags on, ensured every file and
\* returned.
C8_Witness ==
    /\ phase = "returned"
    /\ ~flags.existingOnly
    /\ AllFlagsOn
    /\ AllFilesParse
    /\ AllEnrichedAtStart
    /\ nStarted = Len(tree)
    /\ taskQueue = <<>>
    /\ catalog # <<>>

\* The step in which the transcriber raised for the recording of this key
\* left "*** ERROR: " and the failure description in the transcription of
\* that key's row, and changed nothing else in the catalog.
SentinelWritten(key) ==
    /\ Len(catalog') = Len(catalog)
    /\ \E i \in 1..Len(catalog) : RowKey(catalog[i]) = key
    /\ \A i \in 1..Len(catalog) :
          IF RowKey(catalog[i]) = key
          THEN catalog'[i] = [catalog[i] EXCEPT
                                 !.TRANSCRIPTION = "*** ERROR: " \o FailureDescription]
          ELSE catalog'[i] = catalog[i]

\* A row whose transcription was the error sentinel when the run started
\* keeps it, and the run proposes no transcription task for its key.
SentinelNotRetried ==
    \A i \in 1..Len(catalog0) :
        catalog0[i].TRANSCRIPTION = ErrorSentinel =>
            /\ catalog[i].TRANSCRIPTION = ErrorSentinel
            /\ ~BagIn(<<RowKey(catalog0[i]), "transcription">>, proposed)

\* C9: when the transcriber raises for a recording, the transcription task
\* still writes "*** ERROR: " followed by the failure description to that
\* key's row and leaves every other row and attribute as it was; and a row
\* holding the sentinel gets no transcription task in a later run.
C9_TranscriberFailureWritesSentinel ==
    /\ [][\A key \in {p[1] : p \in {q \in faults' \ faults : q[2] = "transcription"}} :
            SentinelWritten(key)]_vars
    /\ []SentinelNotRetried

\* A later scan run with computeTranscription on ensured both recordings
\* and returned; one row holds the sentinel of an earlier run's failure, the
\* other row a transcription text.
C9_Witness ==
    /\ phase = "returned"
    /\ ~flags.existingOnly
    /\ flags.computeTranscription
    /\ nStarted >= Len(tree)
    /\ taskQueue = <<>>
    /\ Len(catalog0) = 2
    /\ \E i, j \in 1..2 :
          /\ catalog0[i].TRANSCRIPTION = ErrorSentinel
          /\ catalog[i].TRANSCRIPTION = ErrorSentinel
          /\ catalog[j].TRANSCRIPTION \in {TranscriptionOfFile(0), TranscriptionOfFile(1)}

\* The column an enrichment task writes, and the flag that enables it.
ColumnOf(kind) == IF kind = "duration" THEN "DURATION" ELSE "SHA256"

FlagOf(kind) ==
    IF kind = "duration" THEN flags.computeDuration ELSE flags.computeChecksum

\* The step in which the probe or the hasher failed for the recording of
\* this key wrote nothing, and the attribute of that key's row is NULL.
NothingWritten(key, kind) ==
    /\ catalog' = catalog
    /\ \A i \in 1..Len(catalog) :
          RowKey(catalog[i]) = key => catalog[i][ColumnOf(kind)] = NULL

\* A run has returned: every duration or sha256 that failed in an earlier
\* run, was still NULL when this run started, and whose flag this run
\* enables, was proposed again in this run.
FailedProposedAgain ==
    phase = "returned" =>
        \A p \in failedBefore.pairs :
            (/\ p[2] \in {"duration", "signature"}
             /\ FlagOf(p[2])
             /\ \E i \in 1..Len(catalog0) :
                   RowKey(catalog0[i]) = p[1] /\ catalog0[i][ColumnOf(p[2])] = NULL)
            => BagIn(p, proposed)

\* C10: when the duration probe or the hasher fails for a recording, the
\* task writes nothing and the attribute stays NULL; and a later run with
\* that compute flag enabled proposes the task for that key again.
C10_FailedDerivationRetried ==
    /\ [][\A p \in {q \in faults' \ faults : q[2] \in {"duration", "signature"}} :
            NothingWritten(p[1], p[2])]_vars
    /\ []FailedProposedAgain

\* The catalog has a row under the key of tx whose station or path differs
\* from that of tx.
Conflicts(cat, tx) ==
    \E i \in MatchingRows(cat, tx.eventID, tx.system, tx.channel, tx.startTime) :
        cat[i].STATION # tx.station \/ cat[i].FILE_NAME # AsFileName(tx.path)

\* This step starts the ensure task of a record that conflicts with a row.
StartsConflictingEnsure ==
    /\ nStarted' = nStarted + 1
    /\ taskQueue # <<>>
    /\ PoppedTask(taskQueue).kind = "ensure"
    /\ Conflicts(catalog, PoppedTask(taskQueue).tx)

\* C11: the ensure task of a record whose key has a row with another
\* station, or with the same station and another path, writes nothing and
\* proposes nothing: the catalog is unchanged, with exactly one row under
\* the key, and the queue only loses the ensure task.
C11_ConflictLeavesRowAlone ==
    [][StartsConflictingEnsure =>
          LET tx == PoppedTask(taskQueue).tx
          IN  /\ catalog' = catalog
              /\ proposed' = proposed
              /\ taskQueue' = QueueAfterPop(taskQueue)
              /\ Cardinality(MatchingRows(catalog', tx.eventID, tx.system,
                                          tx.channel, tx.startTime)) = 1]_vars

\* Two files of one key were ensured with all compute flags on: one row,
\* three proposals (those of the first file ensured), all three carried out.
C11_Witness ==
    /\ phase = "returned"
    /\ AllFlagsOn
    /\ Len(tree) = 2
    /\ tree[1] # tree[2]
    /\ KeyFromName(tree[1]) = KeyFromName(tree[2])
    /\ Len(catalog0) = 0
    /\ Len(catalog) = 1
    /\ Enriched(catalog[1])
    /\ nStarted = 5
    /\ BagCardinality(proposed) = 3

\* C12: once runInParallel has returned, no started task is in flight: no
\* worker waits for a Deferred, and every task that was drawn has completed,
\* with a result or with a failure.
C12_ReturnsWithNothingInFlight ==
    phase \in {"returned", "raised"} =>
        /\ inflight = EmptyBag
        /\ \A w \in Workers : worker[w] # "paused" /\ awaiting[w] = NoTask

\* runInParallel has returned after one signature task failed, ending its
\* worker, and another one completed with a digest.
C12_Witness ==
    /\ phase = "returned"
    /\ \E w \in Workers : worker[w] = "failed"
    /\ \E i \in 1..Len(catalog) : catalog[i].SHA256 # NULL
    /\ faults # {}

\* C13: after runInParallel was cancelled with tasks in flight, no further
\* task is drawn or started, a task in flight leaves only by completing, and
\* the caller observes the cancellation.
C13_CancelStopsNewTasks ==
    /\ [][detached => /\ nStarted' = nStarted
                      /\ \A t \in BagToSet(inflight) :
                            CopiesIn(t, inflight') < CopiesIn(t, inflight)
                            => \E w \in Workers :
                                  awaiting[w] = t /\ awaiting'[w] = NoTask]_vars
    /\ [](detached => phase = "cancelled")

\* C14: the event bootstrap of indexIntoStore completes without error and
\* leaves exactly one EVENT row with the configured id, whatever EVENT rows
\* the database held, an Event row of that id under another name included.
C14_EventBootstrapCreatesOrIgnores ==
    [][runsLeft' = runsLeft - 1 =>
          /\ phase' = "running"
          /\ Cardinality({e \in events' : e.id = TheEvent.id}) = 1]_vars

\* The last script upgradeSchema asked for.
LastAttempt == attempts[Len(attempts)]

\* The number of scripts between the version the database had and the target.
ScriptBudget ==
    IF latestVersion > dbVersion0 THEN latestVersion - dbVersion0 ELSE 0

\* C15: when a script has run and the database then reports a version not
\* above the version before the script, upgradeSchema fails; after it has
\* failed no further script is asked for; and it asks for at most
\* (target - current) scripts.
C15_UpgradeMustIncreaseVersion ==
    /\ [][(/\ Len(attempts') = Len(attempts) + 1
           /\ attempts'[Len(attempts')].result = "applied"
           /\ dbVersion' <= dbVersion) => store' = "failed"]_vars
    /\ [][store = "failed" => attempts' = attempts /\ store' = "failed"]_vars
    /\ [](Len(attempts) <= ScriptBudget)

\* upgradeSchema failed after a second script, which ran to its end and
\* left the version where the first one had put it.
C15_Witness ==
    /\ store = "failed"
    /\ Len(attempts) = 2
    /\ attempts[1].result = "applied"
    /\ LastAttempt.result = "applied"
    /\ LastAttempt.after = LastAttempt.before
    /\ dbVersion < latestVersion

\* C16: upgradeSchema on a database whose version is above the target
\* fails, asks for no script, and leaves the database's version as it was.
C16_DowngradeRefused ==
    (store # "closed" /\ dbVersion0 > latestVersion) =>
        /\ store = "failed"
        /\ attempts = <<>>
        /\ dbVersion = dbVersion0

\* upgradeSchema has failed on a database newer than the target.
C16_Witness ==
    /\ store = "failed"
    /\ dbVersion0 > latestVersion
    /\ currentVersion = dbVersion0

\* Every script asked for was there, ran to its end, and left the version
\* it is named for.
AllAsNamed ==
    \A i \in 1..Len(attempts) :
        attempts[i].result = "applied" /\ attempts[i].after = attempts[i].script[1]

\* The i-th script of an upgrade from dbVersion0: the create script named
\* for the target, or the step from the version i - 1 steps up.
ExpectedScript(i) ==
    IF dbVersion0 = 0 THEN <<latestVersion>>
    ELSE <<dbVersion0 + i, dbVersion0 + i - 1>>

\* C17: as long as every script sets the version it is named for, the
\* scripts asked for are, in order, the create script of the target (from
\* version 0) or the steps M+1-from-M, M+2-from-M+1, ... (from M > 0);
\* upgradeSchema does not fail, and when it has returned the database is at
\* the target; a database already at the target is asked for no script.
C17_ScriptsInVersionOrder ==
    /\ (AllAsNamed /\ 0 <= dbVersion0 /\ dbVersion0 <= latestVersion) =>
          /\ \A i \in 1..Len(attempts) : attempts[i].script = ExpectedScript(i)
          /\ store # "failed"
          /\ store = "open" => dbVersion = latestVersion
    /\ dbVersion0 = latestVersion => attempts = <<>>

\* upgradeSchema has returned after two step scripts that did as named.
C17_Witness ==
    /\ store = "open"
    /\ dbVersion0 > 0
    /\ Len(attempts) = 2
    /\ AllAsNamed
    /\ dbVersion = latestVersion

\* C18: when the schema upgrade made on opening the store has failed (a
\* script failed or is missing, or the database is newer than the code),
\* indexIntoStore does not take place: no event bootstrap, no scan, no
\* TRANSMISSION write.
C18_FailedUpgradeAbortsRun ==
    store = "failed" =>
        /\ phase = "idle"
        /\ events = {}
        /\ catalog = <<>>
        /\ scanner = "none"
        /\ taskQueue = <<>>
        /\ nStarted = 0

\* The upgrade has failed on a missing or failing script.
C18_Witness ==
    /\ store = "failed"
    /\ attempts # <<>>
    /\ LastAttempt.result \in {"missing", "failed"}
    /\ runsLeft = 1

\* C19: createTransmission for a key that has a row fails and leaves the
\* catalog as it was: the row keeps every value and no row is added.
C19_CreateOnTakenKeyFails ==
    [][(/\ lastCall' # lastCall
        /\ lastCall'.op = "createTransmission"
        /\ HasRow(catalog, KeyOf(lastCall'.tx)))
       => (~lastCall'.ok /\ catalog' = catalog)]_vars

\* createTransmission has just failed for a record whose key has a row of
\* another station with a derived attribute set.
C19_Witness ==
    /\ lastCall.op = "createTransmission"
    /\ ~lastCall.ok
    /\ \E i \in 1..Len(catalog) :
          /\ RowKey(catalog[i]) = KeyOf(lastCall.tx)
          /\ catalog[i].STATION # lastCall.tx.station
          /\ catalog[i].SHA256 # NULL

\* C20: setTransmissionDuration, setTransmissionSHA256 and
\* setTransmissionTranscription for a key that has no row fail and leave the
\* catalog as it was.
C20_SetOnMissingRowFails ==
    [][(/\ lastCall' # lastCall
        /\ lastCall'.op = "setTransmissionAttribute"
        /\ ~HasRow(catalog, KeyOf(lastCall'.tx)))
       => (~lastCall'.ok /\ catalog' = catalog)]_vars

\* C21: after createTransmission(r) has returned, transmission called with
\* the key of r returns a record with the key of r (the start time as the
\* same instant) and the station, path, duration, sha256 and transcription
\* of r.
C21_CreatedRecordIsRead ==
    [][(/\ lastCall' # lastCall
        /\ lastCall'.op = "createTransmission"
        /\ lastCall'.ok)
       => LET r == lastCall'.tx
              read == StoreTransmission(catalog', r.eventID, r.system,
                                        r.channel, r.startTime)
          IN  /\ read # {}
              /\ \A t \in read :
                    /\ t.eventID = r.eventID
                    /\ t.system = r.system
                    /\ t.channel = r.channel
                    /\ t.startTime.instant = r.startTime.instant
                    /\ t.station = r.station
                    /\ t.path = r.path
                    /\ t.duration = r.duration
                    /\ t.sha256 = r.sha256
                    /\ t.transcription = r.transcription]_vars

\* createTransmission has just returned for a record with a duration, a
\* sha256 and a transcription; the table holds the duration as seconds and
\* the record read back has its start time in another zone.
C21_Witness ==
    /\ lastCall.op = "createTransmission"
    /\ lastCall.ok
    /\ lastCall.tx.duration # NULL
    /\ lastCall.tx.sha256 # NULL
    /\ lastCall.tx.transcription # NULL
    /\ \E i \in 1..Len(catalog) :
          /\ RowKey(catalog[i]) = KeyOf(lastCall.tx)
          /\ catalog[i].DURATION # lastCall.tx.duration
          /\ RowAsTransmission(catalog[i]).startTime # lastCall.tx.startTime

\* ceil(maxRate * W)
CeilPerWindow == (limiter.maxRate * limiter.timeWindow + 1) \div 2

\* The tasks released in the window of W seconds that ends at time t.
ReleasedInWindow(t) ==
    {i \in 1..Len(limiter.released) :
        limiter.released[i] > t - limiter.timeWindow /\ limiter.released[i] <= t}

\* C22: in every rolling window of W seconds the number of source tasks
\* rateLimited has released is at most ceil(maxRate * W), however the
\* consumer polls and however many stall timers it draws.
C22_ReleasesPerWindowBounded ==
    \A t \in 0..(MaxTime + MaxWindow) :
        Cardinality(ReleasedInWindow(t)) <= CeilPerWindow

\* A window holds as many releases as the limit allows, the consumer has
\* drawn several stall timers, and a task was released after the stalls.
C22_Witness ==
    /\ limiter.state = "ready"
    /\ limiter.stalls >= 2
    /\ Len(limiter.released) > CeilPerWindow
    /\ Cardinality(ReleasedInWindow(limiter.now)) = CeilPerWindow

\* The factory returns in this step.
FactoryReturns == search'.calls = search.calls + 1

\* C23: after any sequence of adds and rebuilds, the search index holds at
\* most one document per composite key, in the index the factory returned
\* and in the index on disk.
C23_OneDocumentPerKey ==
    /\ \A i, j \in 1..Len(search.last.docs) :
          DocumentKey(search.last.docs[i]) = DocumentKey(search.last.docs[j])
          => i = j
    /\ \A i, j \in 1..Len(search.docs) :
          DocumentKey(search.docs[i]) = DocumentKey(search.docs[j]) => i = j

\* The keys of the documents and of the rows.
KeysIn(docs, cat) ==
    {DocumentKey(docs[i]) : i \in 1..Len(docs)}
    \cup {RowKey(cat[i]) : i \in 1..Len(cat)}

C25_EqualTimesReached ==
    /\ search.last.reindex
    /\ search.last.location = "path"
    /\ search.last.existed
    /\ search.dbFile
    /\ search.last.indexTime = search.last.dbTime
    /\ search.last.opened # <<>>

\* The scanner thread goes through one iteration of its loop over filenames.
ScanStep == scanner = "walking" /\ phase' = phase /\ scanPos' # scanPos

\* The scanner hands a record to queueTransmission in this step.
Emits == taskQueue' # taskQueue

\* C26: for a file name of the 2023 grammar under event E the parser makes
\* a record with eventID E, system "Conventional X", station S, channel C,
\* the start time written in the name at UTC-07:00, and duration, sha256 and
\* transcription NULL.
C26_Record2023 ==
    [][(/\ ScanStep
        /\ tree[scanPos].name.ext = ".wav"
        /\ tree[scanPos].name.year = "2023"
        /\ tree[scanPos].name.form = "g2023"
        /\ tree[scanPos].name.dateOK)
       => /\ Emits
          /\ taskQueue'[Len(taskQueue')].tx
             = [eventID |-> TheEvent.id,
                system |-> "Conventional " \o tree[scanPos].name.sysName,
                station |-> tree[scanPos].name.stn,
                channel |-> tree[scanPos].name.chan,
                startTime |-> [instant |-> tree[scanPos].name.time,
                               zone |-> "PDT"],
                duration |-> NULL,
                path |-> tree[scanPos],
                sha256 |-> NULL,
                transcription |-> NULL]]_vars

\* The grammar the year prefix of a name selects according to the dispatch
\* rule, "none" for any other prefix.
GrammarOfPrefix(name) ==
    CASE name.year = "2017" -> {"g2017"}
      [] name.year = "2023" -> {"g2023"}
      [] name.year = "2024" -> {"g2024a", "g2024b"}
      [] OTHER              -> {}

\* C27: a .wav name is matched against the grammar of its year prefix,
\* 2017, 2023 or 2024: it yields a record when it follows that grammar, and
\* is rejected without a record when it does not or when the prefix is any
\* other.
C27_DispatchByYearPrefix ==
    [][(/\ ScanStep
        /\ tree[scanPos].name.ext = ".wav"
        /\ tree[scanPos].name.dateOK)
       => (Emits <=> tree[scanPos].name.form
                        \in GrammarOfPrefix(tree[scanPos].name))]_vars

\* C28: a file whose parse fails does not stop the scan: the scanner goes on
\* with the next file, so no later file that parses is passed over, no
\* record is made of a file that is not a .wav file, and the scanner sets
\* scanComplete only after the last file.
C28_ParseFailureSkipsOneFile ==
    /\ [][ScanStep =>
            /\ \A j \in (scanPos + 1)..(scanPos' - 1) :
                  TransmissionFromFile(tree[j], TheEvent.id).kind # "tx"
            /\ tree[scanPos].name.ext # ".wav" => ~Emits]_vars
    /\ [][(scanner = "walking" /\ scanner' = "done")
           => (scanComplete' /\ scanPos > Len(tree))]_vars

\* C29: whenever tasks() has ended, scanComplete is true and the task queue
\* is empty, under every interleaving of the scanner and the workers.
C29_TaskSourceEndsDrained ==
    (phase = "running" /\ genDone) => (scanComplete /\ taskQueue = <<>>)

\* C30: when runInParallel returns, scanComplete is true at the assertion
\* that follows it, and the scan thread, if there is one, has ended when
\* indexIntoStore returns.
C30_ScanCompleteAtAssertion ==
    [][(phase = "running" /\ phase' # "running")
       => /\ scanComplete
          /\ phase' = "returned"
          /\ ~flags.existingOnly => scanner = "done"]_vars

\* The three enrichment attributes, the column each one is stored in, and
\* whether the current call enables it.
EnrichmentKinds == {"signature", "duration", "transcription"}

KindColumn(kind) ==
    IF kind = "signature" THEN "SHA256"
    ELSE IF kind = "duration" THEN "DURATION" ELSE "TRANSCRIPTION"

KindEnabled(kind) ==
    IF kind = "signature" THEN flags.computeChecksum
    ELSE IF kind = "duration" THEN flags.computeDuration
    ELSE flags.computeTranscription

\* This step starts an ensure task.
StartsEnsure ==
    /\ nStarted' = nStarted + 1
    /\ taskQueue # <<>>
    /\ PoppedTask(taskQueue).kind = "ensure"

\* The attributes the ensure task of tx has to propose, given the catalog
\* it finds.
ExpectedKinds(tx) ==
    LET rows == MatchingRows(catalog, tx.eventID, tx.system, tx.channel,
                             tx.startTime)
    IN  IF rows = {} THEN {k \in EnrichmentKinds : KindEnabled(k)}
        ELSE IF Conflicts(catalog, tx) THEN {}
        ELSE {k \in EnrichmentKinds :
                 /\ KindEnabled(k)
                 /\ \A i \in rows : catalog[i][KindColumn(k)] = NULL}

\* Every value of a disabled attribute is the one the run started with, NULL
\* in a row the run created.
DisabledNotWritten ==
    \A k \in EnrichmentKinds :
        ~KindEnabled(k) =>
            \A i \in 1..Len(catalog) :
                catalog[i][KindColumn(k)] =
                    IF i <= Len(catalog0) THEN catalog0[i][KindColumn(k)]
                    ELSE NULL

\* C31: an ensure task proposes exactly one task per enabled attribute when
\* the key was absent (and the row exists afterwards), and exactly one task
\* per enabled attribute that is NULL in the stored row when the key was
\* present without conflict; a disabled attribute is never proposed and
\* never written.
C31_EnsureProposesExactly ==
    /\ [][StartsEnsure =>
             LET tx == PoppedTask(taskQueue).tx
                 added == [k \in ExpectedKinds(tx) |-> <<KeyOf(tx), k>>]
             IN  /\ proposed' =
                        proposed (+) SetToBag({added[k] : k \in DOMAIN added})
                 /\ Len(taskQueue') =
                        Len(taskQueue) - 1 + Cardinality(ExpectedKinds(tx))
                 /\ \A i \in Len(taskQueue)..Len(taskQueue') :
                        /\ taskQueue'[i].kind \in ExpectedKinds(tx)
                        /\ KeyOf(taskQueue'[i].tx) = KeyOf(tx)
                 /\ HasRow(catalog', KeyOf(tx))]_vars
    /\ [](\A p \in BagToSet(proposed) : KindEnabled(p[2]))
    /\ []DisabledNotWritten

\* A second run over a row that has a digest and no duration, with the
\* checksum and duration flags on: the duration was proposed, the digest was
\* not, and the run is over.
C31_Witness ==
    /\ phase = "returned"
    /\ runsLeft = 0
    /\ ~flags.existingOnly
    /\ flags.computeChecksum
    /\ flags.computeDuration
    /\ ~flags.computeTranscription
    /\ Len(catalog0) = 1
    /\ catalog0[1].SHA256 # NULL
    /\ catalog0[1].DURATION = NULL
    /\ catalog0[1].TRANSCRIPTION = NULL
    /\ BagToSet(proposed) = {<<RowKey(catalog0[1]), "duration">>}
    /\ catalog[1].DURATION # NULL
    /\ catalog[1].TRANSCRIPTION = NULL

\* This step starts a duration or transcription task, which makes its
\* setTransmission call in the same step.
StartsWritingTask ==
    /\ nStarted' = nStarted + 1
    /\ taskQueue # <<>>
    /\ PoppedTask(taskQueue).kind \in {"duration", "transcription"}

\* The set call of task has a row to write to, the only one under its key,
\* and the ensure task of this run proposed it.
WriteFindsRow(task) ==
    /\ Cardinality(MatchingRows(catalog, task.tx.eventID, task.tx.system,
                                task.tx.channel, task.tx.startTime)) = 1
    /\ HasRow(catalog, KeyOf(task.tx))
    /\ BagIn(Proposal(task), proposed)

\* C32: every setTransmissionDuration, setTransmissionSHA256 and
\* setTransmissionTranscription call of a run is made when the row of its key
\* exists and after the ensure task of that key proposed it: no enrichment
\* write targets a missing row.
C32_WriteAfterRowExists ==
    [][/\ StartsWritingTask => WriteFindsRow(PoppedTask(taskQueue))
       /\ \A w \in Workers :
             (awaiting[w] # NoTask /\ awaiting'[w] = NoTask)
                 => WriteFindsRow(awaiting[w])]_vars

\* A run created a row and wrote its digest, duration and transcription.
C32_Witness ==
    /\ phase = "returned"
    /\ ~flags.existingOnly
    /\ tree[1] = File(1, NameTxt)
    /\ Len(catalog0) = 0
    /\ Len(catalog) = 1
    /\ catalog[1].SHA256 # NULL
    /\ catalog[1].DURATION # NULL
    /\ catalog[1].TRANSCRIPTION # NULL
    /\ BagCardinality(proposed) = 3

\* A step of the scanner thread (scan() inside deferToThread).
ScannerThreadStep == ScanFile \/ ScanFinish

\* What the step appended to the right end of the deque, if it only appended.
Appended ==
    IF Len(taskQueue') >= Len(taskQueue)
       /\ SubSeq(taskQueue', 1, Len(taskQueue)) = taskQueue
    THEN SubSeq(taskQueue', Len(taskQueue) + 1, Len(taskQueue'))
    ELSE <<Task("removed", NoTask)>>

\* The step is one of a coroutine on the coordinating task: it starts a task
\* drawn from tasks(), or it resumes a signature task with the result of its
\* pool thread.
CoordinatorTaskStep ==
    \/ nStarted' = nStarted + 1
    \/ \E w \in Workers : awaiting[w] # NoTask /\ awaiting'[w] = NoTask

\* C33: the scanner thread never calls the store: its steps leave the tables
\* alone, start no task, and only append ensure tasks, not yet started, to
\* the queue; a pool thread only computes a hash: submitting a signature
\* task writes nothing, and every change of the tables is made by a step of
\* the coordinating task.
C33_StoreCallsOnCoordinator ==
    [][/\ ScannerThreadStep =>
             /\ catalog' = catalog
             /\ events' = events
             /\ nStarted' = nStarted
             /\ inflight' = inflight
             /\ proposed' = proposed
             /\ \A i \in 1..Len(Appended) : Appended[i].kind = "ensure"
       /\ (inflight' # inflight /\ BagCardinality(inflight') >
                                    BagCardinality(inflight))
             => catalog' = catalog
       /\ (phase = "running" /\ catalog' # catalog) => CoordinatorTaskStep]_vars

\* The scanner thread is still walking, the coordinating task has created a
\* row, and a pool thread is computing that row's digest.
C33_Witness ==
    /\ phase = "running"
    /\ scanner = "walking"
    /\ scanPos = 2
    /\ Len(tree) >= 2
    /\ Len(catalog0) = 0
    /\ Len(catalog) = 1
    /\ BagCardinality(inflight) = 1
    /\ \A t \in BagToSet(inflight) : t.kind = "signature"

\* This step starts a transcription task, which calls transcribe() and
\* returns from it within the step.
StartsTranscription ==
    /\ nStarted' = nStarted + 1
    /\ taskQueue # <<>>
    /\ PoppedTask(taskQueue).kind = "transcription"

\* The tasks of a kind that were started and have not completed.
InProgress(kind) ==
    {w \in Workers : awaiting[w] # NoTask /\ awaiting[w].kind = kind}

\* C34: over the runs of one process the transcriber model is loaded at
\* most once; every transcription task starts with the model already
\* loaded and leaves it as it is; and no transcribe() invocation is still in
\* progress when another task is started: none is ever pending between two
\* steps of the coordinating task.
C34_TranscriberLoadedOnceAndSerial ==
    /\ [](whisper.loads <= 1)
    /\ [][StartsTranscription =>
             /\ whisper.model # NULL
             /\ whisper' = whisper]_vars
    /\ [](/\ InProgress("transcription") = {}
          /\ \A t \in BagToSet(inflight) : t.kind # "transcription")

\* Two runs with transcription enabled: the second run transcribed two
\* recordings with the model the first run loaded.
C34_Witness ==
    /\ phase = "returned"
    /\ runsLeft = 0
    /\ flags.computeTranscription
    /\ whisper.loads = 1
    /\ Len(catalog0) = 2
    /\ Len(catalog) = 2
    /\ \A i \in 1..2 :
          /\ catalog0[i].TRANSCRIPTION = NULL
          /\ catalog0[i].SHA256 # NULL
          /\ catalog[i].TRANSCRIPTION # NULL
    /\ BagCardinality(proposed) = 2

\* The tasks that write attribute p[2] of the row of key p[1] and are queued
\* or in flight.
PendingWriters(p) ==
    {i \in 1..Len(taskQueue) :
        taskQueue[i].kind # "ensure" /\ Proposal(taskQueue[i]) = p}

InFlightWriters(p) ==
    {w \in Workers : awaiting[w] # NoTask /\ Proposal(awaiting[w]) = p}

\* C35: within one run each <<key, attribute>> is proposed at most once, and
\* at most one task writing an attribute of a row is queued or in flight,
\* also when two files parse to one key.
C35_OneWriterPerAttribute ==
    \A p \in BagToSet(proposed) :
        /\ CopiesIn(p, proposed) = 1
        /\ Cardinality(PendingWriters(p)) + Cardinality(InFlightWriters(p)) <= 1

\* Two files of one key and one station: the ensure task of the second was
\* started while the digest proposed by the first was being computed.
C35_Witness ==
    /\ phase = "running"
    /\ AllFlagsOn
    /\ Len(tree) = 2
    /\ tree[1].name = tree[2].name
    /\ tree[1] # tree[2]
    /\ scanPos = 3
    /\ taskQueue = <<>>
    /\ nStarted = 5
    /\ BagCardinality(inflight) = 1
    /\ BagCardinality(proposed) = 3
    /\ Len(catalog) = 1

\* Row i has the key, station and path it had when the run started, and
\* each derived column has its old value or went from NULL to a value.
RowOnlyEnriched(i) ==
    /\ RowKey(catalog[i]) = RowKey(catalog0[i])
    /\ catalog[i].STATION = catalog0[i].STATION
    /\ catalog[i].FILE_NAME = catalog0[i].FILE_NAME
    /\ \A k \in EnrichmentKinds :
          \/ catalog[i][KindColumn(k)] = catalog0[i][KindColumn(k)]
          \/ /\ catalog0[i][KindColumn(k)] = NULL
             /\ catalog[i][KindColumn(k)] # NULL

WrapperMirrorsTask(t) ==
    /\ timed.task[t] = "unstarted" <=> timed.wrapper[t] = "unmade"
    /\ timed.task[t] = "running" <=> timed.wrapper[t] = "awaiting"
    /\ timed.task[t] = "ok" <=> timed.wrapper[t] = "done"
    /\ timed.task[t] = "failed" <=> timed.wrapper[t] = "failed"

\* C37: timeTasks makes one wrapper per source task, in source order; each
\* wrapper starts its task once, and ends with success when its task
\* succeeded and with failure when its task failed.
C37_WrappersMirrorTasks ==
    /\ timed.started = [i \in 1..timed.next |-> i]
    /\ \A t \in TimedSource : WrapperMirrorsTask(t)

\* The generator has ended: it returned, or the assertion of taskCount
\* failed inside it.
LimiterEnded == limiter.state \in {"done", "failed"}

\* This step yields a stall timer.
YieldsStall == limiter'.stalls > limiter.stalls

\* C38: the source tasks rateLimited has yielded are the first tasks of the
\* source, each once and in source order, and all of them once the generator
\* has ended; anything else it yields is a stall timer, yielded only when
\* the number of releases in the current window has reached the cap.
C38_LimiterKeepsTasksAndOrder ==
    /\ [](limiter.yielded = [i \in 1..Len(limiter.yielded) |-> i])
    /\ [](LimiterEnded => Len(limiter.yielded) = MaxSource)
    /\ [][YieldsStall =>
             AtLimit(Len(InWindow(limiter.processed, limiter.now,
                                  limiter.timeWindow)),
                     limiter.maxRate, limiter.timeWindow)]_vars

\* C39: the assertion of taskCount, that the release times kept for the
\* current window number at most maxRate * timeWindow, never fails, whether
\* or not maxRate * timeWindow is an integer.
C39_WindowAssertionHolds == limiter.state # "failed"

====
